---------------------------- MODULE Spec2Model ----------------------------
(***************************************************************************)
(* Model of the multi-source JSON template document generator              *)
(* (src/generate_from_template.py): the DataSourceManager (source loading, *)
(* dotted-path get, placeholder substitution) and the                      *)
(* TemplateDocumentGenerator (construction and the generate phases).       *)
(*                                                                         *)
(* Text is a sequence of one-character strings.  A JSON value is a record  *)
(* [t, v]: t is the Python type json.load produces, v the payload.  A      *)
(* mapping keeps its pairs in insertion order, as a Python dict does.      *)
(***************************************************************************)
EXTENDS Integers, Sequences, FiniteSets, TLC

VARIABLES files, writable, pc, template, sources, styles, nextPhase, log, doc,
          out, call, ret

vars == <<files, writable, pc, template, sources, styles, nextPhase, log, doc,
          out, call, ret>>

-----------------------------------------------------------------------------
(* JSON values as json.load returns them *)

JStr(s) == [t |-> "str", v |-> s]
JInt(n) == [t |-> "int", v |-> n]
JBool(b) == [t |-> "bool", v |-> b]
JNull == [t |-> "null", v |-> 0]
JList(xs) == [t |-> "list", v |-> xs]
JDict(kvs) == [t |-> "dict", v |-> kvs]

EmptyStr == JStr(<<>>)
EmptyDict == JDict(<<>>)

(* key in mapping *)
HasKey(d, k) == \E i \in 1..Len(d.v) : d.v[i][1] = k

(* mapping[key], for a key the mapping holds *)
DictAt(d, k) == d.v[CHOOSE i \in 1..Len(d.v) : d.v[i][1] = k][2]

(* list(mapping.keys()): the keys in insertion order *)
DictKeys(d) == [i \in 1..Len(d.v) |-> d.v[i][1]]

(* Python truthiness: None, False, 0, "", [] and {} are falsy *)
Truthy(x) ==
    CASE x.t = "null" -> FALSE
      [] x.t = "bool" -> x.v
      [] x.t = "int" -> x.v # 0
      [] OTHER -> Len(x.v) > 0

-----------------------------------------------------------------------------
(* Characters *)

LowerChars == {"a","b","c","d","e","f","g","h","i","j","k","l","m","n","o","p",
               "q","r","s","t","u","v","w","x","y","z"}
UpperChars == {"A","B","C","D","E","F","G","H","I","J","K","L","M","N","O","P",
               "Q","R","S","T","U","V","W","X","Y","Z"}
DigitChars == {"0","1","2","3","4","5","6","7","8","9"}

(* the placeholder pattern's two character classes *)
SourceClass == LowerChars \cup {"_"}
PathClass == LowerChars \cup UpperChars \cup DigitChars \cup {"_", "."}

DigitVal(c) ==
    CASE c = "0" -> 0 [] c = "1" -> 1 [] c = "2" -> 2 [] c = "3" -> 3
      [] c = "4" -> 4 [] c = "5" -> 5 [] c = "6" -> 6 [] c = "7" -> 7
      [] c = "8" -> 8 [] c = "9" -> 9

DigitChar(n) ==
    CASE n = 0 -> "0" [] n = 1 -> "1" [] n = 2 -> "2" [] n = 3 -> "3"
      [] n = 4 -> "4" [] n = 5 -> "5" [] n = 6 -> "6" [] n = 7 -> "7"
      [] n = 8 -> "8" [] n = 9 -> "9"

RECURSIVE Concat(_)
Concat(ss) == IF ss = <<>> THEN <<>> ELSE Head(ss) \o Concat(Tail(ss))

-----------------------------------------------------------------------------
(* str.split("."), int(str), str(value) *)

RECURSIVE SplitDot(_)
SplitDot(s) ==
    IF \A i \in 1..Len(s) : s[i] # "."
    THEN <<s>>
    ELSE LET d == CHOOSE i \in 1..Len(s) :
                      s[i] = "." /\ \A j \in 1..(i - 1) : s[j] # "."
         IN <<SubSeq(s, 1, d - 1)>> \o SplitDot(SubSeq(s, d + 1, Len(s)))

RECURSIVE Strip(_)
Strip(s) ==
    IF s = <<>> THEN s
    ELSE IF Head(s) = " " THEN Strip(Tail(s))
    ELSE IF s[Len(s)] = " " THEN Strip(SubSeq(s, 1, Len(s) - 1))
    ELSE s

RECURSIVE DigitsValue(_, _)
DigitsValue(s, acc) ==
    IF s = <<>> THEN acc
    ELSE IF Head(s) = "_" THEN DigitsValue(Tail(s), acc)
    ELSE DigitsValue(Tail(s), 10 * acc + DigitVal(Head(s)))

(* int(part): surrounding blanks are stripped, one sign is allowed, the rest is
   decimal digits with single underscores between digits.  ok = FALSE is
   ValueError. *)
WellFormedDigits(body) ==
    /\ body # <<>>
    /\ \A i \in 1..Len(body) : body[i] \in DigitChars \cup {"_"}
    /\ body[1] # "_" /\ body[Len(body)] # "_"
    /\ \A i \in 1..(Len(body) - 1) : ~(body[i] = "_" /\ body[i + 1] = "_")

IntLiteral(negative, body) ==
    IF ~WellFormedDigits(body) THEN [ok |-> FALSE, n |-> 0]
    ELSE [ok |-> TRUE,
          n |-> IF negative THEN 0 - DigitsValue(body, 0) ELSE DigitsValue(body, 0)]

SignedLiteral(s) ==
    IF s # <<>> /\ Head(s) \in {"+", "-"}
    THEN IntLiteral(Head(s) = "-", Tail(s))
    ELSE IntLiteral(FALSE, s)

ParseInt(part) == SignedLiteral(Strip(part))

RECURSIVE NatStr(_)
NatStr(n) == IF n < 10 THEN <<DigitChar(n)>> ELSE NatStr(n \div 10) \o <<DigitChar(n % 10)>>

IntStr(n) == IF n < 0 THEN <<"-">> \o NatStr(0 - n) ELSE NatStr(n)

RECURSIVE JoinComma(_)
JoinComma(ss) ==
    IF ss = <<>> THEN <<>>
    ELSE IF Len(ss) = 1 THEN ss[1]
    ELSE ss[1] \o <<",", " ">> \o JoinComma(Tail(ss))

(* repr(value); the texts of the model hold no quote, backslash or control
   character, so a string's repr is the string between single quotes *)
RECURSIVE PyRepr(_)
PyRepr(x) ==
    CASE x.t = "str" -> <<"'">> \o x.v \o <<"'">>
      [] x.t = "int" -> IntStr(x.v)
      [] x.t = "bool" -> IF x.v THEN <<"T","r","u","e">> ELSE <<"F","a","l","s","e">>
      [] x.t = "null" -> <<"N","o","n","e">>
      [] x.t = "list" ->
            <<"[">> \o JoinComma([i \in 1..Len(x.v) |-> PyRepr(x.v[i])]) \o <<"]">>
      [] x.t = "dict" ->
            <<"{">> \o JoinComma([i \in 1..Len(x.v) |->
                          PyRepr(JStr(x.v[i][1])) \o <<":", " ">> \o PyRepr(x.v[i][2])])
                   \o <<"}">>

(* str(value) *)
PyStr(x) == IF x.t = "str" THEN x.v ELSE PyRepr(x)

-----------------------------------------------------------------------------
(* Names fixed by the code *)

cfr == <<"c","f","r">>
cyc == <<"c","y","c">>
illustration == <<"i","l","l","u","s","t","r","a","t","i","o","n">>
ceding_info == <<"c","e","d","i","n","g","_","i","n","f","o">>
user_input == <<"u","s","e","r","_","i","n","p","u","t">>

(* source name -> file name, in the dict's iteration order *)
source_files ==
    << <<cfr, "cfr_data.json">>,
       <<cyc, "cyc_data.json">>,
       <<illustration, "illustration_data.json">>,
       <<ceding_info, "ceding_info.json">>,
       <<user_input, "user_input.json">> >>

template_path == "template_structure.json"

FileNames == {source_files[i][2] : i \in 1..Len(source_files)} \cup {template_path}

(* A file of the data directory: absent, present with text json.load rejects,
   or present with a JSON document *)
FileAbsent == [st |-> "absent", json |-> JNull]
FileMalformed == [st |-> "malformed", json |-> JNull]
FileOk(j) == [st |-> "ok", json |-> j]

(* An exception leaving the operation *)
Raised == [t |-> "raise", v |-> 0]

-----------------------------------------------------------------------------
(* DataSourceManager._load_all_sources *)

(* One iteration of the loop over source_files: a present file is parsed (a
   malformed one raises out of the loop), an absent one stores {} *)
LoadOneNoDefault(fs, entry) ==
    IF fs[entry[2]].st = "absent" THEN [raised |-> TRUE, pair |-> <<>>]
    ELSE IF fs[entry[2]].st = "malformed" THEN [raised |-> TRUE, pair |-> <<>>]
    ELSE [raised |-> FALSE, pair |-> <<entry[1], fs[entry[2]].json>>]

LoadOneSwallowParseError(fs, entry) ==
    IF fs[entry[2]].st = "ok"
    THEN [raised |-> FALSE, pair |-> <<entry[1], fs[entry[2]].json>>]
    ELSE [raised |-> FALSE, pair |-> <<entry[1], EmptyDict>>]

LoadOne(fs, entry) ==
    IF fs[entry[2]].st = "absent" THEN [raised |-> FALSE, pair |-> <<entry[1], EmptyDict>>]
    ELSE IF fs[entry[2]].st = "malformed" THEN [raised |-> TRUE, pair |-> <<>>]
    ELSE [raised |-> FALSE, pair |-> <<entry[1], fs[entry[2]].json>>]

RECURSIVE LoadFrom(_, _, _)
LoadFrom(fs, i, acc) ==
    IF i > Len(source_files) THEN [raised |-> FALSE, sources |-> JDict(acc)]
    ELSE LET one == LoadOne(fs, source_files[i])
         IN IF one.raised THEN [raised |-> TRUE, sources |-> JDict(acc)]
            ELSE LoadFrom(fs, i + 1, Append(acc, one.pair))

_load_all_sources(fs) == LoadFrom(fs, 1, <<>>)

-----------------------------------------------------------------------------
(* DataSourceManager.get *)

(* a variant of ElementAt without the try/except: ValueError and IndexError
   leave get *)
ElementAtUncaught(items, p) ==
    IF ~p.ok THEN [kind |-> "raise", val |-> Raised]
    ELSE IF p.n >= Len(items) \/ p.n < 0 - Len(items) THEN [kind |-> "raise", val |-> Raised]
    ELSE [kind |-> "value",
          val |-> IF p.n >= 0 THEN items[p.n + 1] ELSE items[Len(items) + p.n + 1]]

(* value[int(part)] inside try/except (ValueError, IndexError): a negative
   index counts from the end of the list *)
ElementAt(items, p) ==
    IF ~p.ok THEN [kind |-> "default", val |-> JNull]
    ELSE IF p.n >= Len(items) \/ p.n < 0 - Len(items) THEN [kind |-> "default", val |-> JNull]
    ELSE [kind |-> "value",
          val |-> IF p.n >= 0 THEN items[p.n + 1] ELSE items[Len(items) + p.n + 1]]

ListIndex(value, part) == ElementAt(value.v, ParseInt(part))

(* One iteration of the loop over parts[1:] *)
Step(value, part) ==
    IF value.t = "dict" /\ HasKey(value, part)
    THEN [kind |-> "value", val |-> DictAt(value, part)]
    ELSE IF value.t = "list" THEN ListIndex(value, part)
    ELSE [kind |-> "default", val |-> JNull]

RECURSIVE Walk(_, _, _)
AfterStep(s, rest, default) ==
    CASE s.kind = "value" -> Walk(s.val, rest, default)
      [] s.kind = "default" -> default
      [] s.kind = "raise" -> Raised

Walk(value, parts, default) ==
    IF parts = <<>>
    THEN (IF value.t # "null" THEN value ELSE default)
    ELSE AfterStep(Step(value, Head(parts)), Tail(parts), default)

(* a variant of get_parts that walks a path of any length *)
get_parts_AnyLength(srcs, parts, default) ==
    IF parts = <<>> \/ ~HasKey(srcs, parts[1]) THEN default
    ELSE Walk(DictAt(srcs, parts[1]), Tail(parts), default)

(* get, after path.split("."): at least a source and one segment are needed *)
get_parts(srcs, parts, default) ==
    IF Len(parts) < 2 THEN default
    ELSE IF ~HasKey(srcs, parts[1]) THEN default
    ELSE Walk(DictAt(srcs, parts[1]), Tail(parts), default)

get(srcs, path, default) == get_parts(srcs, SplitDot(path), default)

-----------------------------------------------------------------------------
(* DataSourceManager.resolve_placeholders *)

(* a variant of TokenEnd for the pattern \{([a-zA-Z0-9_.]+)\}: any run of
   path characters between braces is a token *)
TokenEnd_AnyName(text, i) ==
    LET ends == {j \in (i + 2)..Len(text) :
                    /\ text[i] = "{"
                    /\ text[j] = "}"
                    /\ \A k \in (i + 1)..(j - 1) : text[k] \in PathClass}
    IN IF ends = {} THEN 0 ELSE CHOOSE j \in ends : TRUE

(* The end of the match of \{([a-z_]+\.[a-zA-Z0-9_.]+)\} that starts at
   position i of text, 0 when the pattern does not match there *)
TokenEnd(text, i) ==
    LET ends == {j \in (i + 4)..Len(text) :
                    /\ text[i] = "{"
                    /\ text[j] = "}"
                    /\ \E p \in (i + 2)..(j - 2) :
                          /\ \A k \in (i + 1)..(p - 1) : text[k] \in SourceClass
                          /\ text[p] = "."
                          /\ \A k \in (p + 1)..(j - 1) : text[k] \in PathClass}
    IN IF ends = {} THEN 0 ELSE CHOOSE j \in ends : TRUE

(* variants of replace_match: one substitutes whatever get returns, one never
   substitutes *)
replace_match_Always(srcs, token) ==
    PyStr(get(srcs, SubSeq(token, 2, Len(token) - 1), EmptyStr))

replace_match_Never(srcs, token) == token

(* replace_match: group(1) is the token without its braces *)
replace_match(srcs, token) ==
    LET Replacement(value) == IF Truthy(value) THEN PyStr(value) ELSE token
    IN Replacement(get(srcs, SubSeq(token, 2, Len(token) - 1), EmptyStr))

(* a variant of Sub that stops substituting after the first match, as
   re.sub(pattern, repl, text, count=1) *)
RECURSIVE Sub_FirstOnly(_, _, _)
Sub_FirstOnly(srcs, text, i) ==
    IF i > Len(text) THEN <<>>
    ELSE LET j == TokenEnd(text, i)
         IN IF j = 0 THEN <<text[i]>> \o Sub_FirstOnly(srcs, text, i + 1)
            ELSE replace_match(srcs, SubSeq(text, i, j)) \o SubSeq(text, j + 1, Len(text))

(* a variant of Sub that scans the text it has substituted again *)
RECURSIVE Sub_Rescans(_, _, _)
Sub_Rescans(srcs, text, i) ==
    IF i > Len(text) THEN <<>>
    ELSE LET j == TokenEnd(text, i)
         IN IF j = 0 THEN <<text[i]>> \o Sub_Rescans(srcs, text, i + 1)
            ELSE IF replace_match(srcs, SubSeq(text, i, j)) = SubSeq(text, i, j)
            THEN SubSeq(text, i, j) \o Sub_Rescans(srcs, text, j + 1)
            ELSE Sub_Rescans(srcs, replace_match(srcs, SubSeq(text, i, j))
                                       \o SubSeq(text, j + 1, Len(text)), 1)

(* re.sub: leftmost non-overlapping matches, each replaced once *)
RECURSIVE Sub(_, _, _)
Sub(srcs, text, i) ==
    IF i > Len(text) THEN <<>>
    ELSE LET j == TokenEnd(text, i)
         IN IF j = 0 THEN <<text[i]>> \o Sub(srcs, text, i + 1)
            ELSE replace_match(srcs, SubSeq(text, i, j)) \o Sub(srcs, text, j + 1)

(* the paths replace_match passes to get during re.sub, in call order *)
RECURSIVE Lookups(_, _)
Lookups(text, i) ==
    IF i > Len(text) THEN <<>>
    ELSE LET j == TokenEnd(text, i)
         IN IF j = 0 THEN Lookups(text, i + 1)
            ELSE <<SubSeq(text, i + 1, j - 1)>> \o Lookups(text, j + 1)

(* a variant of resolve_placeholders that strips the blanks around the result *)
resolve_placeholders_Stripped(srcs, text) ==
    IF text.t # "str" THEN text ELSE JStr(Strip(Sub(srcs, text.v, 1)))

resolve_placeholders(srcs, text) ==
    IF text.t # "str" THEN text ELSE JStr(Sub(srcs, text.v, 1))

-----------------------------------------------------------------------------
(* Inputs of the queries: bounded sets of documents, paths and texts *)

MaxSegs == 3
MaxPieces == 2

S(c) == JStr(<<c>>)

(* a cfr_data.json with every JSON type, nesting, nulls and falsy values *)
RichCfr ==
    JDict(<< << <<"a">>, JStr(<<"A","n","n">>) >>,
             << <<"z">>, JInt(0) >>,
             << <<"n">>, JInt(7) >>,
             << <<"u">>, JNull >>,
             << <<"f">>, JBool(FALSE) >>,
             << <<"t">>, JBool(TRUE) >>,
             << <<"e">>, JList(<<>>) >>,
             << <<"m">>, JDict(<<>>) >>,
             << <<"l">>, JList(<< JNull,
                                  JDict(<< << <<"a">>, S("i") >>,
                                           << <<"0">>, S("k") >>,
                                           << <<"l">>, JList(<<S("q")>>) >> >>),
                                  S("s") >>) >>,
             << <<"d">>, JDict(<< << <<"a">>, JStr(<<>>) >>,
                                  << <<"u">>, JNull >>,
                                  << <<"l">>, JList(<<JInt(7), S("w")>>) >>,
                                  << <<"d">>, JDict(<< << <<"z">>, JInt(0) >> >>) >> >>) >> >>)

SmallUserInput ==
    JDict(<< << <<"n","a","m","e">>, JStr(<<"A","n","n">>) >>,
             << <<"r","e","f">>, JStr(<<"{","c","f","r",".","n","}">>) >> >>)

(* a source file whose root is an array, and one whose root is a scalar *)
ArrayRoot == JList(<<S("r"), JDict(<< << <<"a">>, S("b") >> >>)>>)
ScalarRoot == JInt(5)

QueryFiles(c, y, i, g, u) ==
    [f \in FileNames |->
        CASE f = "cfr_data.json" -> c
          [] f = "cyc_data.json" -> y
          [] f = "illustration_data.json" -> i
          [] f = "ceding_info.json" -> g
          [] f = "user_input.json" -> u
          [] OTHER -> FileOk(EmptyDict)]

QueryFileConfigs ==
    { QueryFiles(FileOk(RichCfr), FileOk(ArrayRoot), FileOk(ScalarRoot),
                 FileOk(EmptyDict), FileOk(SmallUserInput)),
      QueryFiles(FileOk(RichCfr), FileAbsent, FileOk(ArrayRoot),
                 FileAbsent, FileOk(SmallUserInput)),
      QueryFiles(FileAbsent, FileAbsent, FileAbsent, FileAbsent, FileAbsent),
      QueryFiles(FileOk(RichCfr), FileMalformed, FileAbsent, FileAbsent, FileAbsent) }

UnknownSource == <<"n","o">>
PathHeads == {cfr, cyc, UnknownSource}
PathSegs ==
    {<<"a">>, <<"l">>, <<"u">>, <<"z">>, <<"0">>, <<"1">>, <<"3">>, <<"-","1">>,
     <<"-","4">>}

SegSeqs(n) == UNION {[1..k -> PathSegs] : k \in 0..n}

RECURSIVE JoinDot(_)
JoinDot(ss) ==
    IF ss = <<>> THEN <<>>
    ELSE IF Len(ss) = 1 THEN ss[1]
    ELSE ss[1] \o <<".">> \o JoinDot(Tail(ss))

Defaults == {EmptyStr, S("D")}

(* literal text without braces, and well-formed tokens *)
HelloSp == <<"H","e","l","l","o">> \o <<" ">>
Tok(path) == <<"{">> \o path \o <<"}">>
LiteralPieces == {HelloSp, <<" ", "x">>}
TokenPaths ==
    { user_input \o <<".">> \o <<"n","a","m","e">>,          \* "Ann"
      user_input \o <<".">> \o <<"n","i","c","k">>,          \* missing key
      user_input \o <<".">> \o <<"r","e","f">>,              \* "{cfr.n}"
      UnknownSource \o <<".", "a">>,          \* unknown source
      cfr \o <<".", "z">>,                    \* 0
      cfr \o <<".", "n">>,                    \* 7
      cfr \o <<".", "u">>,                    \* null
      cfr \o <<".", "f">>,                    \* false
      cfr \o <<".", "t">>,                    \* true
      cfr \o <<".", "e">>,                    \* []
      cfr \o <<".", "m">>,                    \* {}
      cfr \o <<".", "d", ".", "a">>,          \* ""
      cfr \o <<".", "l", ".", "1", ".", "l">>,   \* ['q']
      cfr \o <<".", "d", ".", "d">> }         \* {'z': 0}
(* brace-delimited text that is not of the placeholder form *)
MalformedPieces ==
    { <<"{","C","f","r",".","n","}">>,          \* uppercase in the source name
      <<"{","c","f","r","1",".","n","}">>,      \* digit in the source name
      <<"{","c","f","r","}">>,                  \* no dot
      <<"{","c","f","r",".","}">>,              \* nothing after the dot
      <<"{",".","n","}">>,                      \* nothing before the dot
      <<"{","c","f","r",".","n"," ","}">>,      \* a blank in the path
      <<"{","}">>,
      <<"{","c","f","r",".","n">> }             \* never closed
Pieces == LiteralPieces \cup {Tok(p) : p \in TokenPaths} \cup MalformedPieces
PieceSeqs == UNION {[1..k -> Pieces] : k \in 0..MaxPieces}

-----------------------------------------------------------------------------
(* State *)

NoCall == [op |-> "none", path |-> <<>>, default |-> JNull, pieces |-> <<>>]

QueryInit ==
    /\ files \in QueryFileConfigs
    /\ writable = TRUE
    /\ pc = "new"
    /\ template = JNull
    /\ sources = EmptyDict
    /\ styles = JNull
    /\ nextPhase = "none"
    /\ log = <<>>
    /\ doc = <<>>
    /\ out = <<>>
    /\ call = NoCall
    /\ ret = JNull

-----------------------------------------------------------------------------
(* TemplateDocumentGenerator.__init__ *)

(* the "document" entry of DEFAULT_STYLES, with the keys the generator reads
   (line_spacing is 1.0) *)
document ==
    JDict(<< << <<"f","o","n","t","_","f","a","m","i","l","y">>,
                JStr(<<"P","o","p","p","i","n","s">>) >>,
             << <<"f","o","n","t","_","s","i","z","e">>, JInt(10) >>,
             << <<"l","i","n","e","_","s","p","a","c","i","n","g">>, JInt(1) >> >>)
DEFAULT_STYLES == JDict(<< << <<"d","o","c","u","m","e","n","t">>, document >> >>)

(* a variant of PyGet that subscripts, obj[key]: an absent key raises KeyError *)
PyGet_Subscript(obj, key, default) ==
    IF obj.t # "dict" THEN Raised
    ELSE IF HasKey(obj, key) THEN DictAt(obj, key)
    ELSE Raised

(* obj.get(key, default): only a mapping has the method; on any other value the
   call raises AttributeError, and an exception already under way goes on *)
PyGet(obj, key, default) ==
    IF obj.t # "dict" THEN Raised
    ELSE IF HasKey(obj, key) THEN DictAt(obj, key)
    ELSE default

NoGenerator == [raised |-> TRUE, template |-> JNull, sources |-> EmptyDict,
                styles |-> JNull]

TemplateDocumentGenerator_init(fs) ==
    IF fs[template_path].st # "ok" THEN NoGenerator
    ELSE LET tpl == fs[template_path].json
             data == _load_all_sources(fs)
             st == PyGet(tpl, <<"s","t","y","l","e","s">>, DEFAULT_STYLES)
         IN IF data.raised \/ st = Raised THEN NoGenerator
            ELSE [raised |-> FALSE, template |-> tpl, sources |-> data.sources,
                  styles |-> st]

Construct ==
    /\ pc = "new"
    /\ LET g == TemplateDocumentGenerator_init(files)
       IN /\ pc' = IF g.raised THEN "failed" ELSE "ready"
          /\ template' = g.template
          /\ sources' = g.sources
          /\ styles' = g.styles
          /\ ret' = IF g.raised THEN Raised ELSE JNull
    /\ call' = NoCall
    /\ UNCHANGED <<files, writable, nextPhase, log, doc, out>>

(* the generator is constructed and no call is in progress *)
Idle == pc = "ready" /\ call.op \notin {"get", "resolve"}

(* a caller's data.get(path, default) on the constructed generator *)
GetCall(path, default) ==
    /\ Idle
    /\ call' = [op |-> "get", path |-> path, default |-> default, pieces |-> <<>>]
    /\ ret' = get(sources, path, default)
    /\ UNCHANGED <<files, writable, pc, template, sources, styles, nextPhase, log,
                   doc, out>>

(* a caller's data.resolve_placeholders(text), text the pieces joined *)
ResolveCall(pieces) ==
    /\ Idle
    /\ call' = [op |-> "resolve", path |-> Concat(pieces), default |-> JNull,
                pieces |-> pieces]
    /\ ret' = resolve_placeholders(sources, JStr(Concat(pieces)))
    /\ UNCHANGED <<files, writable, pc, template, sources, styles, nextPhase, log,
                   doc, out>>

(* the single-threaded caller takes the result before it calls again *)
Return ==
    /\ call.op \in {"get", "resolve"}
    /\ call' = NoCall
    /\ ret' = JNull
    /\ UNCHANGED <<files, writable, pc, template, sources, styles, nextPhase, log,
                   doc, out>>

QueryNext ==
    \/ Construct
    \/ Idle /\ \E h \in PathHeads, ss \in SegSeqs(MaxSegs), d \in Defaults :
                  GetCall(JoinDot(<<h>> \o ss), d)
    \/ Idle /\ \E d \in Defaults : GetCall(<<>>, d)
    \/ Idle /\ \E pieces \in PieceSeqs : ResolveCall(pieces)
    \/ Return

QuerySpec == QueryInit /\ [][QueryNext]_vars

-----------------------------------------------------------------------------
(* The dotted-path contract, stated without the code's loop: a segment resolves
   in a mapping by key lookup and in a sequence of length n by an integer index
   i with 0 <= i < n.  The walk stops at the first segment that does not
   resolve and reports where it stopped. *)

RECURSIVE PathWalk(_, _)
PathWalk(value, segs) ==
    IF segs = <<>> THEN [found |-> TRUE, val |-> value, seg |-> <<>>, rest |-> <<>>]
    ELSE LET seg == Head(segs)
             stop == [found |-> FALSE, val |-> value, seg |-> seg, rest |-> Tail(segs)]
         IN IF value.t = "dict"
            THEN (IF HasKey(value, seg) THEN PathWalk(DictAt(value, seg), Tail(segs))
                  ELSE stop)
            ELSE IF value.t = "list" /\ ParseInt(seg).ok
                    /\ ParseInt(seg).n >= 0 /\ ParseInt(seg).n < Len(value.v)
            THEN PathWalk(value.v[ParseInt(seg).n + 1], Tail(segs))
            ELSE stop

Segments(path) == SplitDot(path)
HasDot(path) == \E i \in 1..Len(path) : path[i] = "."
KnownSource(path) == HasKey(sources, Segments(path)[1])
CallWalk == PathWalk(DictAt(sources, Segments(call.path)[1]), Tail(Segments(call.path)))

GetReturned == call.op = "get"

(* the walk of the call's path stopped at a sequence, on a segment int() parses *)
StoppedAtIndex ==
    /\ ~CallWalk.found
    /\ CallWalk.val.t = "list"
    /\ ParseInt(CallWalk.seg).ok

(* C1: get returns the stored value of every path of two or more segments that
   resolves to a non-null value, and the caller's default for every path that
   resolves to null or fails at a segment. *)
C1_GetReturnsStoredOrDefault ==
    (GetReturned /\ HasDot(call.path)) =>
        ret = IF KnownSource(call.path) /\ CallWalk.found /\ CallWalk.val # JNull
              THEN CallWalk.val
              ELSE call.default

(* C1 away from negative indices: the same statement for the calls whose walk
   does not stop on a negative integer index into a sequence. *)
C1_ExceptNegativeIndex ==
    (GetReturned /\ HasDot(call.path) /\ KnownSource(call.path)
        /\ ~(StoppedAtIndex /\ ParseInt(CallWalk.seg).n < 0)) =>
        ret = IF CallWalk.found /\ CallWalk.val # JNull THEN CallWalk.val
              ELSE call.default

(* C6: get never raises, and a non-numeric segment addressed to a sequence
   gives the default. *)
C6_GetNeverRaises ==
    GetReturned =>
        /\ ret # Raised
        /\ (HasDot(call.path) /\ KnownSource(call.path) /\ ~CallWalk.found
              /\ CallWalk.val.t = "list" /\ ~ParseInt(CallWalk.seg).ok)
           => ret = call.default

C6_Witness ==
    /\ GetReturned
    /\ call.path = cfr \o <<".", "l", ".", "a">>
    /\ DictAt(sources, cfr) = RichCfr
    /\ call.default = S("D")
    /\ ret = S("D")

(* the walk stopped on an integer index outside 0 .. n-1: the default *)
C7_IndexOutOfRangeGivesDefault ==
    (GetReturned /\ HasDot(call.path) /\ KnownSource(call.path) /\ StoppedAtIndex)
        => ret = call.default

(* an integer index i with 0 <= i < n: the walk goes on from element i *)
C7_InRangeIndex ==
    \A k \in 1..Len(Segments(call.path)) :
        LET segs == Segments(call.path)
            w == PathWalk(DictAt(sources, segs[1]), SubSeq(segs, 2, k - 1))
            i == ParseInt(segs[k]).n
        IN (GetReturned /\ k >= 2 /\ KnownSource(call.path) /\ w.found
              /\ w.val.t = "list" /\ ParseInt(segs[k]).ok /\ i >= 0 /\ i < Len(w.val.v))
           => ret = Walk(w.val.v[i + 1], SubSeq(segs, k + 1, Len(segs)), call.default)

(* C7: on a sequence of length n an integer segment i yields element i when
   0 <= i < n and the default when i < 0 or i >= n. *)
C7_SequenceIndex == C7_InRangeIndex /\ C7_IndexOutOfRangeGivesDefault

(* C8: a path of fewer than two segments gives the default. *)
C8_ShortPathGivesDefault ==
    (GetReturned /\ ~HasDot(call.path)) => ret = call.default

C8_Witness ==
    /\ GetReturned
    /\ call.path = cfr
    /\ DictAt(sources, cfr) = RichCfr
    /\ call.default = S("D")
    /\ ret = S("D")

-----------------------------------------------------------------------------
(* Placeholder substitution, stated piece by piece: the text of a resolve call
   is its pieces joined, each piece a well-formed token or brace-free text. *)

ResolveReturned == call.op = "resolve"

IsToken(piece) == \E p \in TokenPaths : piece = Tok(p)
TokenValue(piece) == get(sources, SubSeq(piece, 2, Len(piece) - 1), EmptyStr)
TruthyToken(piece) == IsToken(piece) /\ Truthy(TokenValue(piece))
FalsyToken(piece) == IsToken(piece) /\ ~Truthy(TokenValue(piece))

(* what the piece becomes, and where that begins in the output *)
PieceOutput(piece) == IF TruthyToken(piece) THEN PyStr(TokenValue(piece)) ELSE piece
OutputOffset(i) == Len(Concat([k \in 1..(i - 1) |-> PieceOutput(call.pieces[k])]))
OutputAt(i, n) == SubSeq(ret.v, OutputOffset(i) + 1, OutputOffset(i) + n)

(* C2: a token whose value is falsy keeps its literal text in the output. *)
C2_FalsyTokenKept ==
    ResolveReturned =>
        \A i \in 1..Len(call.pieces) :
            FalsyToken(call.pieces[i]) =>
                /\ OutputOffset(i) + Len(call.pieces[i]) <= Len(ret.v)
                /\ OutputAt(i, Len(call.pieces[i])) = call.pieces[i]

C2_Witness ==
    /\ ResolveReturned
    /\ call.pieces = <<HelloSp, Tok(user_input \o <<".">> \o <<"n","i","c","k">>)>>
    /\ DictAt(sources, user_input) = SmallUserInput
    /\ ret = JStr(HelloSp \o Tok(user_input \o <<".">> \o <<"n","i","c","k">>))

(* C3: a token whose value is truthy is replaced by str(value), and the text
   outside tokens is unchanged. *)
C3_TruthyTokenReplaced ==
    ResolveReturned =>
        /\ ret.t = "str"
        /\ Len(ret.v) = OutputOffset(Len(call.pieces) + 1)
        /\ \A i \in 1..Len(call.pieces) :
              LET piece == call.pieces[i]
              IN /\ TruthyToken(piece) =>
                      OutputAt(i, Len(PyStr(TokenValue(piece)))) = PyStr(TokenValue(piece))
                 /\ ~IsToken(piece) => OutputAt(i, Len(piece)) = piece

C3_Witness ==
    /\ ResolveReturned
    /\ call.pieces = <<HelloSp, Tok(user_input \o <<".">> \o <<"n","a","m","e">>)>>
    /\ DictAt(sources, user_input) = SmallUserInput
    /\ ret = JStr(HelloSp \o <<"A","n","n">>)

-----------------------------------------------------------------------------
(* The placeholder form, stated on the pieces of the text *)

(* '{', one or more of [a-z_], '.', one or more of [a-zA-Z0-9_.], '}' *)
OfPlaceholderForm(piece) ==
    /\ Len(piece) >= 5
    /\ piece[1] = "{"
    /\ piece[Len(piece)] = "}"
    /\ \E d \in 3..(Len(piece) - 2) :
          /\ piece[d] = "."
          /\ \A k \in 2..(d - 1) :
                piece[k] \in LowerChars \cup {"_"}
          /\ \A k \in (d + 1)..(Len(piece) - 1) :
                piece[k] \in LowerChars \cup UpperChars \cup DigitChars \cup {"_", "."}

InnerPath(piece) == SubSeq(piece, 2, Len(piece) - 1)

(* the paths of the pieces of the placeholder form, in the order of the text *)
RECURSIVE PlaceholderPaths(_)
PlaceholderPaths(pieces) ==
    IF pieces = <<>> THEN <<>>
    ELSE IF OfPlaceholderForm(Head(pieces))
    THEN <<InnerPath(Head(pieces))>> \o PlaceholderPaths(Tail(pieces))
    ELSE PlaceholderPaths(Tail(pieces))

(* C12: the placeholders looked up are exactly the substrings of the form
   '{' [a-z_]+ '.' [a-zA-Z0-9_.]+ '}', and brace-delimited text outside this
   form is not looked up and is left unchanged. *)
C12_ExactlyThePlaceholderForm ==
    ResolveReturned =>
        /\ Lookups(call.path, 1) = PlaceholderPaths(call.pieces)
        /\ \A i \in 1..Len(call.pieces) :
              ~OfPlaceholderForm(call.pieces[i]) =>
                  /\ OutputOffset(i) + Len(call.pieces[i]) <= Len(ret.v)
                  /\ OutputAt(i, Len(call.pieces[i])) = call.pieces[i]

C12_Witness ==
    /\ ResolveReturned
    /\ call.pieces = << <<"{","C","f","r",".","n","}">>, Tok(cfr \o <<".", "n">>) >>
    /\ DictAt(sources, cfr) = RichCfr
    /\ ret = JStr(<<"{","C","f","r",".","n","}","7">>)

(* C13: a text of several tokens, adjacent ones included, resolves to what its
   pieces resolve to one by one, in the order of the text. *)
C13_TokensResolvedIndependently ==
    ResolveReturned =>
        ret = JStr(Concat([i \in 1..Len(call.pieces) |->
                      resolve_placeholders(sources, JStr(call.pieces[i])).v]))

C13_Witness ==
    /\ ResolveReturned
    /\ call.pieces = << Tok(user_input \o <<".">> \o <<"n","i","c","k">>),
                        Tok(user_input \o <<".">> \o <<"n","a","m","e">>) >>
    /\ DictAt(sources, user_input) = SmallUserInput
    /\ ret = JStr(Tok(user_input \o <<".">> \o <<"n","i","c","k">>) \o <<"A","n","n">>)

(* C14: a text without a placeholder token is returned unchanged, and stays so
   when resolved again. *)
C14_IdentityWithoutTokens ==
    (ResolveReturned /\ \A i \in 1..Len(call.pieces) : ~OfPlaceholderForm(call.pieces[i])) =>
        /\ ret = JStr(call.path)
        /\ resolve_placeholders(sources, ret) = ret
        /\ resolve_placeholders(sources, resolve_placeholders(sources, ret)) = ret

C14_Witness ==
    /\ ResolveReturned
    /\ call.pieces = << HelloSp, <<"{","c","f","r","}">> >>
    /\ DictAt(sources, cfr) = RichCfr
    /\ ret = JStr(HelloSp \o <<"{","c","f","r","}">>)
-----------------------------------------------------------------------------
(* Document nodes.  The document library is the rendering collaborator: every
   call into it (add_paragraph, add_run, add_table, Inches, Pt, ...) is taken
   to succeed and is recorded as the node it appends.  What Python itself does
   with a JSON value (attribute lookup, iteration, truthiness, formatting) is
   modelled. *)

(* a string literal of the code *)
Lit(s) == [t |-> "lit", v |-> s]
NoText == Lit("")

IsRaised(x) == x.t = "raise"

(* an f-string: its literal parts and formatted values in order *)
Fmt(parts) ==
    IF \E i \in 1..Len(parts) : IsRaised(parts[i]) THEN Raised
    ELSE [t |-> "fmt", v |-> parts]

RaiseNode == [kind |-> "raise", text |-> NoText, columns |-> <<>>, rows |-> <<>>]

Node(kind, text) ==
    IF IsRaised(text) THEN <<RaiseNode>>
    ELSE <<[kind |-> kind, text |-> text, columns |-> <<>>, rows |-> <<>>]>>

(* an expression evaluated for a value the document library consumes *)
Eval(x) == IF IsRaised(x) THEN <<RaiseNode>> ELSE <<>>

add_paragraph(text) == Node("plain", text)          \* doc.add_paragraph(text)
Blank == Node("plain", NoText)                      \* doc.add_paragraph()
add_bold(text) == Node("bold", text)                \* paragraph with a bold run
add_right(text) == Node("right", text)              \* right-aligned paragraph
add_indented(text) == Node("indented", text)        \* paragraph indented 0.75"
add_page_break == Node("page_break", NoText)
add_section == Node("section", NoText)
_add_paragraph(text) == Node("paragraph", text)
_add_heading1(text) == Node("heading1", text)
_add_heading2(text) == Node("heading2", text)
_add_bullet(text) == Node("bullet", text)

HasRaise(nodes) == \E i \in 1..Len(nodes) : nodes[i].kind = "raise"

(* for x in obj: a list gives its elements, a mapping its keys, a string its
   characters; any other value raises TypeError *)
PyIter(obj) ==
    CASE obj.t = "list" -> [ok |-> TRUE, items |-> obj.v]
      [] obj.t = "dict" -> [ok |-> TRUE, items |-> [i \in 1..Len(obj.v) |-> JStr(obj.v[i][1])]]
      [] obj.t = "str" -> [ok |-> TRUE, items |-> [i \in 1..Len(obj.v) |-> JStr(<<obj.v[i]>>)]]
      [] OTHER -> [ok |-> FALSE, items |-> <<>>]

ForEach(obj, Body(_)) ==
    LET it == PyIter(obj)
    IN IF ~it.ok THEN <<RaiseNode>>
       ELSE Concat([i \in 1..Len(it.items) |-> Body(it.items[i])])

(* if cond: body -- cond is a value tested for truth *)
When(cond, body) ==
    IF IsRaised(cond) THEN <<RaiseNode>>
    ELSE IF Truthy(cond) THEN body ELSE <<>>

(* self.data.get(path) *)
DataGet(srcs, path) == get(srcs, path, EmptyStr)

EmptyList == JList(<<>>)

-----------------------------------------------------------------------------
(* TemplateDocumentGenerator._setup_document: page geometry and the Normal
   style; it appends nothing *)
_setup_document(tpl, sty) ==
    LET letter_margins ==
            PyGet(PyGet(PyGet(tpl, <<"p","a","g","e","s">>, EmptyDict), <<"l","e","t","t","e","r">>, EmptyDict),
                  <<"m","a","r","g","i","n","s">>, EmptyDict)
        doc_style == PyGet(sty, <<"d","o","c","u","m","e","n","t">>, EmptyDict)
    IN Concat(<<
        Eval(PyGet(letter_margins, <<"t","o","p">>, JInt(1))),
        Eval(PyGet(letter_margins, <<"b","o","t","t","o","m">>, JInt(1))),
        Eval(PyGet(letter_margins, <<"l","e","f","t">>, JInt(1))),
        Eval(PyGet(letter_margins, <<"r","i","g","h","t">>, JInt(1))),
        Eval(PyGet(doc_style, <<"f","o","n","t","_","f","a","m","i","l","y">>, Lit("Poppins"))),
        Eval(PyGet(doc_style, <<"f","o","n","t","_","s","i","z","e">>, JInt(10))),
        Eval(PyGet(doc_style, <<"l","i","n","e","_","s","p","a","c","i","n","g">>, JInt(1))) >>)

(* TemplateDocumentGenerator._generate_letter *)
_generate_letter(tpl, srcs) ==
    LET letter_template == PyGet(tpl, <<"t","e","m","p","l","a","t","e">>, EmptyDict)
        letter == PyGet(letter_template, <<"l","e","t","t","e","r">>, EmptyDict)
        recipient == PyGet(PyGet(srcs, cfr, EmptyDict), <<"r","e","c","i","p","i","e","n","t">>, EmptyDict)
        AddressLine(key) ==
            When(PyGet(recipient, key, JNull), _add_paragraph(PyGet(recipient, key, JNull)))
        date_text == DataGet(srcs, <<"u","s","e","r","_","i","n","p","u","t",".","l","e","t","t","e","r","_","d","e","t","a","i","l","s",".","d","a","t","e">> (* user_input.letter_details.date *))
        client_name == DataGet(srcs, <<"u","s","e","r","_","i","n","p","u","t",".","l","e","t","t","e","r","_","d","e","t","a","i","l","s",".","c","l","i","e","n","t","_","f","i","r","s","t","_","n","a","m","e">> (* user_input.letter_details.client_first_name *))
        ResolvedParagraph(para_text) ==
            _add_paragraph(resolve_placeholders(srcs, para_text)) \o Blank
        other_docs == PyGet(letter_template, <<"o","t","h","e","r","_","d","o","c","u","m","e","n","t","a","t","i","o","n">>, EmptyDict)
        ongoing == PyGet(letter_template, <<"o","n","g","o","i","n","g","_","a","d","v","i","c","e">>, EmptyDict)
        next_steps == PyGet(letter_template, <<"n","e","x","t","_","s","t","e","p","s">>, EmptyDict)
        adviser_name == DataGet(srcs, <<"u","s","e","r","_","i","n","p","u","t",".","c","l","o","s","i","n","g",".","a","d","v","i","s","e","r","_","n","a","m","e">> (* user_input.closing.adviser_name *))
        adviser_title == DataGet(srcs, <<"u","s","e","r","_","i","n","p","u","t",".","c","l","o","s","i","n","g",".","a","d","v","i","s","e","r","_","t","i","t","l","e">> (* user_input.closing.adviser_title *))
    IN Concat(<<
        add_bold(PyGet(letter, <<"c","o","n","f","i","d","e","n","t","i","a","l">>, Lit("Private and Confidential"))),
        _add_paragraph(PyGet(recipient, <<"t","i","t","l","e","_","a","n","d","_","n","a","m","e">>, EmptyStr)),
        AddressLine(<<"a","d","d","r","e","s","s","_","l","i","n","e","_","1">>),
        AddressLine(<<"a","d","d","r","e","s","s","_","l","i","n","e","_","2">>),
        AddressLine(<<"a","d","d","r","e","s","s","_","l","i","n","e","_","3">>),
        AddressLine(<<"a","d","d","r","e","s","s","_","l","i","n","e","_","4">>),
        AddressLine(<<"a","d","d","r","e","s","s","_","l","i","n","e","_","5">>),
        Blank,
        add_right(date_text),
        _add_paragraph(Fmt(<<Lit("Dear "), client_name, Lit(",")>>)),
        Blank,
        add_bold(Lit("RE: Retirement Planning")),
        Blank,
        ForEach(PyGet(letter_template, <<"i","n","t","r","o","_","p","a","r","a","g","r","a","p","h","s">>, EmptyList), ResolvedParagraph),
        _add_paragraph(PyGet(letter_template, <<"p","a","r","t","s","_","i","n","t","r","o">>, EmptyStr)),
        ForEach(PyGet(letter_template, <<"p","a","r","t","s","_","b","u","l","l","e","t","s">>, EmptyList), _add_bullet),
        Blank,
        _add_paragraph(PyGet(letter_template, <<"a","p","p","e","n","d","i","x","_","i","n","t","r","o">>, EmptyStr)),
        Blank,
        _add_heading2(PyGet(other_docs, <<"h","e","a","d","i","n","g">>, EmptyStr)),
        _add_paragraph(PyGet(other_docs, <<"i","n","t","r","o">>, EmptyStr)),
        ForEach(PyGet(other_docs, <<"b","u","l","l","e","t","s">>, EmptyList), _add_bullet),
        Blank,
        _add_paragraph(PyGet(other_docs, <<"c","l","o","s","i","n","g">>, EmptyStr)),
        Blank,
        _add_heading2(PyGet(ongoing, <<"h","e","a","d","i","n","g">>, EmptyStr)),
        ForEach(PyGet(ongoing, <<"p","a","r","a","g","r","a","p","h","s">>, EmptyList), ResolvedParagraph),
        _add_heading2(PyGet(next_steps, <<"h","e","a","d","i","n","g">>, EmptyStr)),
        ForEach(PyGet(next_steps, <<"p","a","r","a","g","r","a","p","h","s">>, EmptyList), ResolvedParagraph),
        _add_paragraph(PyGet(letter, <<"v","a","l","e","d","i","c","t","i","o","n">>, Lit("Yours sincerely,"))),
        Blank,
        Blank,
        add_bold(adviser_name),
        _add_paragraph(adviser_title),
        _add_paragraph(PyGet(letter, <<"c","l","o","s","i","n","g","_","c","o","m","p","a","n","y">>, EmptyStr)) >>)

-----------------------------------------------------------------------------
(* Tables *)

(* a variant of CellText that shows every value as str(value) *)
CellText_AlwaysStr(x) ==
    IF IsRaised(x) THEN Raised
    ELSE IF x.t = "lit" THEN x
    ELSE JStr(PyStr(x))

(* str(cell_value) if cell_value else "" *)
CellText(x) ==
    IF IsRaised(x) THEN Raised
    ELSE IF x.t = "lit" THEN x
    ELSE IF Truthy(x) THEN JStr(PyStr(x))
    ELSE EmptyStr

(* a variant of _create_table that leaves the last cell of every row out *)
_create_table_DropsLastCell(columns, rows, header_vertical) ==
    IF \E r \in 1..Len(rows) : \E c \in 1..Len(rows[r]) : IsRaised(rows[r][c])
    THEN <<RaiseNode>>
    ELSE <<[kind |-> IF header_vertical THEN "table_vertical" ELSE "table",
            text |-> NoText,
            columns |-> columns,
            rows |-> [r \in 1..Len(rows) |->
                         [c \in 1..(Len(rows[r]) - 1) |-> CellText(rows[r][c])]]]>>

(* TemplateDocumentGenerator._create_table: a table of len(rows) + 1 rows and
   len(columns) columns, the header row holding the column names *)
_create_table(columns, rows, header_vertical) ==
    IF \E r \in 1..Len(rows) : \E c \in 1..Len(rows[r]) : IsRaised(rows[r][c])
    THEN <<RaiseNode>>
    ELSE <<[kind |-> IF header_vertical THEN "table_vertical" ELSE "table",
            text |-> NoText,
            columns |-> columns,
            rows |-> [r \in 1..Len(rows) |->
                         [c \in 1..Len(rows[r]) |-> CellText(rows[r][c])]]]>>

_add_pension_arrangements_table(srcs) ==
    LET columns == <<Lit("Provider Type of Plan / Plan Number"), Lit("Current Value"), Lit("Transfer Value"), Lit("Ongoing Contribution"), Lit("Proposed Action")>>
        cfr_ == PyGet(PyGet(srcs, cfr, EmptyDict), <<"p","e","n","s","i","o","n","_","a","r","r","a","n","g","e","m","e","n","t","s">>, EmptyDict)
        user_input_ == PyGet(PyGet(srcs, user_input, EmptyDict), <<"p","a","r","t","1","_","o","b","j","e","c","t","i","v","e","s">>, EmptyDict)
        illustration_ == PyGet(PyGet(srcs, illustration, EmptyDict), <<"a","v","i","v","a","_","p","l","a","n">>, EmptyDict)
        sjp == PyGet(cfr_, <<"s","j","p","_","r","e","t","i","r","e","m","e","n","t","_","a","c","c","o","u","n","t">>, EmptyDict)
        sw == PyGet(cfr_, <<"s","c","o","t","t","i","s","h","_","w","i","d","o","w","s">>, EmptyDict)
        aviva == PyGet(cfr_, <<"a","v","i","v","a">>, EmptyDict)
    IN _create_table(columns,
         << << PyGet(sjp, <<"p","r","o","v","i","d","e","r","_","p","l","a","n">>, EmptyStr),
               PyGet(sjp, <<"c","u","r","r","e","n","t","_","v","a","l","u","e">>, EmptyStr),
               PyGet(sjp, <<"t","r","a","n","s","f","e","r","_","v","a","l","u","e">>, EmptyStr),
               PyGet(sjp, <<"o","n","g","o","i","n","g","_","c","o","n","t","r","i","b","u","t","i","o","n">>, EmptyStr),
               PyGet(sjp, <<"p","r","o","p","o","s","e","d","_","a","c","t","i","o","n">>, EmptyStr) >>,
            << PyGet(sw, <<"p","r","o","v","i","d","e","r","_","p","l","a","n">>, EmptyStr),
               PyGet(sw, <<"c","u","r","r","e","n","t","_","v","a","l","u","e">>, EmptyStr),
               PyGet(sw, <<"t","r","a","n","s","f","e","r","_","v","a","l","u","e">>, EmptyStr),
               PyGet(sw, <<"o","n","g","o","i","n","g","_","c","o","n","t","r","i","b","u","t","i","o","n">>, EmptyStr),
               PyGet(user_input_, <<"s","c","o","t","t","i","s","h","_","w","i","d","o","w","s","_","p","r","o","p","o","s","e","d","_","a","c","t","i","o","n">>, Lit("Transfer")) >>,
            << PyGet(aviva, <<"p","r","o","v","i","d","e","r","_","p","l","a","n">>, EmptyStr),
               PyGet(illustration_, <<"c","u","r","r","e","n","t","_","v","a","l","u","e">>, EmptyStr),
               PyGet(illustration_, <<"t","r","a","n","s","f","e","r","_","v","a","l","u","e">>, EmptyStr),
               PyGet(illustration_, <<"o","n","g","o","i","n","g","_","c","o","n","t","r","i","b","u","t","i","o","n">>, EmptyStr),
               PyGet(user_input_, <<"a","v","i","v","a","_","p","r","o","p","o","s","e","d","_","a","c","t","i","o","n">>, Lit("None")) >> >>,
         FALSE)

(* a variant of _add_recommendation_table whose Regular Contribution falls
   back to the empty string *)
_add_recommendation_table_NoFallback(srcs) ==
    LET columns == <<Lit("Source"), Lit("Transfer/Redirection"), Lit("Lump Sum Amount"), Lit("Regular Contribution"), Lit("Indexation")>>
        cfr_ == PyGet(PyGet(srcs, cfr, EmptyDict), <<"p","a","r","t","2","_","r","e","c","o","m","m","e","n","d","a","t","i","o","n">>, EmptyDict)
        user_input_ == PyGet(PyGet(srcs, user_input, EmptyDict), <<"p","a","r","t","2","_","r","e","c","o","m","m","e","n","d","a","t","i","o","n">>, EmptyDict)
    IN _create_table(columns,
         << << PyGet(cfr_, <<"s","o","u","r","c","e","_","p","l","a","n">>, EmptyStr),
               Lit("Transfer"),
               PyGet(cfr_, <<"l","u","m","p","_","s","u","m","_","a","m","o","u","n","t">>, EmptyStr),
               PyGet(user_input_, <<"r","e","g","u","l","a","r","_","c","o","n","t","r","i","b","u","t","i","o","n">>, EmptyStr),
               Lit("None") >> >>,
         FALSE)

_add_recommendation_table(srcs) ==
    LET columns == <<Lit("Source"), Lit("Transfer/Redirection"), Lit("Lump Sum Amount"), Lit("Regular Contribution"), Lit("Indexation")>>
        cfr_ == PyGet(PyGet(srcs, cfr, EmptyDict), <<"p","a","r","t","2","_","r","e","c","o","m","m","e","n","d","a","t","i","o","n">>, EmptyDict)
        user_input_ == PyGet(PyGet(srcs, user_input, EmptyDict), <<"p","a","r","t","2","_","r","e","c","o","m","m","e","n","d","a","t","i","o","n">>, EmptyDict)
    IN _create_table(columns,
         << << PyGet(cfr_, <<"s","o","u","r","c","e","_","p","l","a","n">>, EmptyStr),
               Lit("Transfer"),
               PyGet(cfr_, <<"l","u","m","p","_","s","u","m","_","a","m","o","u","n","t">>, EmptyStr),
               PyGet(user_input_, <<"r","e","g","u","l","a","r","_","c","o","n","t","r","i","b","u","t","i","o","n">>, Lit("None")),
               Lit("None") >> >>,
         FALSE)

(* a variant of _add_employer_scheme_table with the second and third cell
   exchanged *)
_add_employer_scheme_table_Swapped(srcs) ==
    LET columns == <<Lit("Contribution Type"), Lit("Source"), Lit("Can the employer accept this type of contribution?"), Lit("Type of Employer Scheme")>>
        employer == PyGet(PyGet(srcs, user_input, EmptyDict), <<"e","m","p","l","o","y","e","r","_","s","c","h","e","m","e">>, EmptyDict)
    IN _create_table(columns,
         << << PyGet(employer, <<"c","o","n","t","r","i","b","u","t","i","o","n","_","t","y","p","e">>, EmptyStr),
               PyGet(employer, <<"c","a","n","_","a","c","c","e","p","t">>, EmptyStr),
               PyGet(employer, <<"s","o","u","r","c","e">>, EmptyStr),
               PyGet(employer, <<"s","c","h","e","m","e","_","t","y","p","e">>, EmptyStr) >> >>,
         FALSE)

_add_employer_scheme_table(srcs) ==
    LET columns == <<Lit("Contribution Type"), Lit("Source"), Lit("Can the employer accept this type of contribution?"), Lit("Type of Employer Scheme")>>
        employer == PyGet(PyGet(srcs, user_input, EmptyDict), <<"e","m","p","l","o","y","e","r","_","s","c","h","e","m","e">>, EmptyDict)
    IN _create_table(columns,
         << << PyGet(employer, <<"c","o","n","t","r","i","b","u","t","i","o","n","_","t","y","p","e">>, EmptyStr),
               PyGet(employer, <<"s","o","u","r","c","e">>, EmptyStr),
               PyGet(employer, <<"c","a","n","_","a","c","c","e","p","t">>, EmptyStr),
               PyGet(employer, <<"s","c","h","e","m","e","_","t","y","p","e">>, EmptyStr) >> >>,
         FALSE)

_add_transfer_impact_table(srcs) ==
    LET columns == <<Lit("Provider Plan"), Lit("Transfer Value"), Lit("Charge on Transfer"), Lit("Protected Tax-Free Cash"), Lit("Guarantees"), Lit("Terminal Bonus")>>
        cfr_ == PyGet(PyGet(srcs, cfr, EmptyDict), <<"p","a","r","t","3","_","i","m","p","a","c","t">>, EmptyDict)
        ceding == PyGet(PyGet(srcs, ceding_info, EmptyDict), <<"p","a","r","t","3","_","t","r","a","n","s","f","e","r","_","d","e","t","a","i","l","s">>, EmptyDict)
    IN _create_table(columns,
         << << PyGet(cfr_, <<"p","r","o","v","i","d","e","r","_","p","l","a","n">>, EmptyStr),
               PyGet(cfr_, <<"t","r","a","n","s","f","e","r","_","v","a","l","u","e">>, EmptyStr),
               PyGet(ceding, <<"c","h","a","r","g","e","_","o","n","_","t","r","a","n","s","f","e","r">>, EmptyStr),
               PyGet(ceding, <<"p","r","o","t","e","c","t","e","d","_","t","f","c">>, EmptyStr),
               PyGet(ceding, <<"g","u","a","r","a","n","t","e","e","s">>, EmptyStr),
               PyGet(ceding, <<"t","e","r","m","i","n","a","l","_","b","o","n","u","s">>, EmptyStr) >> >>,
         FALSE)

_add_outperformance_table(srcs) ==
    LET columns == <<Lit("Provider Plan"), Lit("Action"), Lit("Level of Outperformance Required"), Lit("Monetary Equivalent in First Year")>>
        cfr_ == PyGet(PyGet(srcs, cfr, EmptyDict), <<"p","a","r","t","3","_","i","m","p","a","c","t">>, EmptyDict)
        cyc_ == PyGet(PyGet(PyGet(srcs, cyc, EmptyDict), <<"o","u","t","p","e","r","f","o","r","m","a","n","c","e","_","t","a","b","l","e">>, EmptyDict),
                      <<"s","c","o","t","t","i","s","h","_","w","i","d","o","w","s">>, EmptyDict)
    IN _create_table(columns,
         << << PyGet(cfr_, <<"p","r","o","v","i","d","e","r","_","p","l","a","n">>, EmptyStr),
               Lit("Transfer"),
               PyGet(cyc_, <<"l","e","v","e","l","_","o","f","_","o","u","t","p","e","r","f","o","r","m","a","n","c","e">>, EmptyStr),
               PyGet(cyc_, <<"m","o","n","e","t","a","r","y","_","e","q","u","i","v","a","l","e","n","t">>, EmptyStr) >> >>,
         FALSE)

_add_fund_selection_table(srcs) ==
    LET columns == <<Lit("Category"), Lit("Fund Selection"), Lit("Fund Type"), Lit("Risk Profile"), Lit("Percentage of investment")>>
        funds == PyGet(PyGet(PyGet(srcs, user_input, EmptyDict), <<"f","u","n","d","_","s","e","l","e","c","t","i","o","n">>, EmptyDict),
                       <<"t","a","b","l","e">>, EmptyList)
        it == PyIter(funds)
        Row(fund) == << PyGet(fund, <<"c","a","t","e","g","o","r","y">>, EmptyStr),
                        PyGet(fund, <<"f","u","n","d","_","s","e","l","e","c","t","i","o","n">>, EmptyStr),
                        PyGet(fund, <<"f","u","n","d","_","t","y","p","e">>, EmptyStr),
                        PyGet(fund, <<"r","i","s","k","_","p","r","o","f","i","l","e">>, EmptyStr),
                        PyGet(fund, <<"p","e","r","c","e","n","t","a","g","e">>, EmptyStr) >>
    IN IF IsRaised(funds) \/ ~it.ok THEN <<RaiseNode>>
       ELSE _create_table(columns, [i \in 1..Len(it.items) |-> Row(it.items[i])], FALSE)

_add_product_comparison_table(srcs) ==
    LET columns == <<Lit("Provider Plan Name / Number"), Lit("Initial Advice Charge"), Lit("Ongoing Advice Charge"), Lit("Ongoing Product Charge"), Lit("Ongoing Fund Charge"), Lit("Annual Management Charge"), Lit("Early Withdrawal Charges"),
                     Lit("Allocation Rate"), Lit("Total External Management Charge"), Lit("Plan Charge"), Lit("Number of Funds"), Lit("Maximum Number of Funds"), Lit("Any Guarantees Applicable")>>
        cyc_ == PyGet(PyGet(PyGet(srcs, cyc, EmptyDict), <<"p","r","o","d","u","c","t","_","c","o","m","p","a","r","i","s","o","n">>, EmptyDict),
                      <<"s","j","p","_","r","e","t","i","r","e","m","e","n","t","_","a","c","c","o","u","n","t">>, EmptyDict)
        user_input_ == PyGet(PyGet(srcs, user_input, EmptyDict), <<"p","r","o","d","u","c","t","_","c","o","m","p","a","r","i","s","o","n">>, EmptyDict)
        ceding == PyGet(PyGet(srcs, ceding_info, EmptyDict),
                        <<"p","r","o","d","u","c","t","_","c","o","m","p","a","r","i","s","o","n","_","s","c","o","t","t","i","s","h","_","w","i","d","o","w","s">>, EmptyDict)
    IN _create_table(columns,
         << << Lit("St. James's Place Retirement Account"),
               PyGet(cyc_, <<"i","n","i","t","i","a","l","_","a","d","v","i","c","e","_","c","h","a","r","g","e">>, EmptyStr),
               PyGet(cyc_, <<"o","n","g","o","i","n","g","_","a","d","v","i","c","e","_","c","h","a","r","g","e">>, EmptyStr),
               PyGet(cyc_, <<"o","n","g","o","i","n","g","_","p","r","o","d","u","c","t","_","c","h","a","r","g","e">>, EmptyStr),
               PyGet(cyc_, <<"o","n","g","o","i","n","g","_","f","u","n","d","_","c","h","a","r","g","e">>, EmptyStr),
               Lit("None"),
               Lit("None"),
               PyGet(user_input_, <<"a","l","l","o","c","a","t","i","o","n","_","r","a","t","e">>, EmptyStr),
               Lit("-"),
               Lit("None"),
               Lit("43"),
               Lit("Unlimited"),
               Lit("None") >>,
            << DataGet(srcs, <<"c","f","r",".","p","e","n","s","i","o","n","_","a","r","r","a","n","g","e","m","e","n","t","s",".","s","c","o","t","t","i","s","h","_","w","i","d","o","w","s",".","p","r","o","v","i","d","e","r","_","p","l","a","n">> (* cfr.pension_arrangements.scottish_widows.provider_plan *)),
               PyGet(ceding, <<"i","n","i","t","i","a","l","_","a","d","v","i","c","e","_","c","h","a","r","g","e">>, EmptyStr),
               PyGet(ceding, <<"o","n","g","o","i","n","g","_","a","d","v","i","c","e","_","c","h","a","r","g","e">>, EmptyStr),
               PyGet(ceding, <<"o","n","g","o","i","n","g","_","p","r","o","d","u","c","t","_","c","h","a","r","g","e">>, EmptyStr),
               PyGet(ceding, <<"o","n","g","o","i","n","g","_","f","u","n","d","_","c","h","a","r","g","e">>, EmptyStr),
               PyGet(ceding, <<"a","n","n","u","a","l","_","m","a","n","a","g","e","m","e","n","t","_","c","h","a","r","g","e">>, EmptyStr),
               PyGet(ceding, <<"e","a","r","l","y","_","w","i","t","h","d","r","a","w","a","l","_","c","h","a","r","g","e","s">>, EmptyStr),
               PyGet(ceding, <<"a","l","l","o","c","a","t","i","o","n","_","r","a","t","e">>, EmptyStr),
               PyGet(ceding, <<"t","o","t","a","l","_","e","x","t","e","r","n","a","l","_","c","h","a","r","g","e">>, EmptyStr),
               PyGet(ceding, <<"p","l","a","n","_","c","h","a","r","g","e">>, EmptyStr),
               PyGet(ceding, <<"n","u","m","b","e","r","_","o","f","_","f","u","n","d","s">>, EmptyStr),
               PyGet(ceding, <<"m","a","x","_","f","u","n","d","s">>, EmptyStr),
               PyGet(ceding, <<"g","u","a","r","a","n","t","e","e","s">>, EmptyStr) >> >>,
         TRUE)

-----------------------------------------------------------------------------
(* TemplateDocumentGenerator._process_content_item *)

(* key in data, for a key taken from the item's "keys": a list or a mapping is
   unhashable and raises TypeError, a non-string scalar is no key of a JSON
   mapping *)
KeyIn(key, data) ==
    IF key.t \in {"list", "dict"} THEN Raised
    ELSE JBool(key.t = "str" /\ HasKey(data, key.v))

(* a variant of BulletsOf that makes bullets of the strings of a list only *)
BulletsOf_StringsOnly(item, srcs, source) ==
    IF source.t # "str" THEN <<RaiseNode>>
    ELSE LET data == DataGet(srcs, source.v)
             keys == PyGet(item, <<"k","e","y","s">>, JList([i \in 1..Len(data.v) |-> JStr(data.v[i][1])]))
             KeyBullet(key) == When(KeyIn(key, data), _add_bullet(DictAt(data, key.v)))
             StringBullet(x) == IF x.t = "str" THEN _add_bullet(x) ELSE <<>>
         IN CASE data.t = "list" -> ForEach(data, StringBullet)
              [] data.t = "dict" -> ForEach(keys, KeyBullet)
              [] OTHER -> <<>>

(* a variant of BulletsOf that ignores the item's "keys" *)
BulletsOf_NaturalOrder(item, srcs, source) ==
    IF source.t # "str" THEN <<RaiseNode>>
    ELSE LET data == DataGet(srcs, source.v)
             keys == JList([i \in 1..Len(data.v) |-> JStr(data.v[i][1])])
             KeyBullet(key) == When(KeyIn(key, data), _add_bullet(DictAt(data, key.v)))
         IN CASE data.t = "list" -> ForEach(data, _add_bullet)
              [] data.t = "dict" -> ForEach(keys, KeyBullet)
              [] OTHER -> <<>>

BulletsOf(item, srcs, source) ==
    IF source.t # "str" THEN <<RaiseNode>>       \* path.split on a non-string
    ELSE LET data == DataGet(srcs, source.v)
             keys == PyGet(item, <<"k","e","y","s">>, JList([i \in 1..Len(data.v) |-> JStr(data.v[i][1])]))
             KeyBullet(key) == When(KeyIn(key, data), _add_bullet(DictAt(data, key.v)))
         IN CASE data.t = "list" -> ForEach(data, _add_bullet)
              [] data.t = "dict" -> ForEach(keys, KeyBullet)
              [] OTHER -> <<>>

(* a variant of _process_content_item that appends the text as the template
   holds it *)
_process_content_item_RawText(item, srcs) ==
    LET item_type == PyGet(item, <<"t","y","p","e">>, JStr(<<"p","a","r","a","g","r","a","p","h">>))
    IN CASE IsRaised(item_type) -> <<RaiseNode>>
         [] item_type = JStr(<<"p","a","r","a","g","r","a","p","h">>) ->
              Blank \o _add_paragraph(PyGet(item, <<"t","e","x","t">>, EmptyStr))
         [] item_type = JStr(<<"h","e","a","d","i","n","g","2">>) ->
              Blank \o _add_heading2(PyGet(item, <<"t","e","x","t">>, EmptyStr))
         [] item_type = JStr(<<"b","u","l","l","e","t","_","l","i","s","t">>) ->
              Blank \o When(PyGet(item, <<"s","o","u","r","c","e">>, EmptyStr),
                            BulletsOf(item, srcs, PyGet(item, <<"s","o","u","r","c","e">>, EmptyStr)))
         [] item_type = JStr(<<"t","a","b","l","e">>) ->
              LET table_id == PyGet(item, <<"t","a","b","l","e","_","i","d">>, EmptyStr)
              IN Blank \o
                 (CASE table_id = JStr(<<"p","e","n","s","i","o","n","_","a","r","r","a","n","g","e","m","e","n","t","s">>) ->
                          _add_pension_arrangements_table(srcs)
                    [] table_id = JStr(<<"r","e","c","o","m","m","e","n","d","a","t","i","o","n","_","t","a","b","l","e">>) ->
                          _add_recommendation_table(srcs)
                    [] OTHER -> <<>>)
         [] OTHER -> <<>>

(* a variant of _process_content_item that treats an unknown type as a
   paragraph *)
_process_content_item_UnknownAsParagraph(item, srcs) ==
    LET item_type == PyGet(item, <<"t","y","p","e">>, JStr(<<"p","a","r","a","g","r","a","p","h">>))
    IN CASE IsRaised(item_type) -> <<RaiseNode>>
         [] item_type = JStr(<<"p","a","r","a","g","r","a","p","h">>) ->
              Blank \o _add_paragraph(resolve_placeholders(srcs, PyGet(item, <<"t","e","x","t">>, EmptyStr)))
         [] item_type = JStr(<<"h","e","a","d","i","n","g","2">>) ->
              Blank \o _add_heading2(resolve_placeholders(srcs, PyGet(item, <<"t","e","x","t">>, EmptyStr)))
         [] item_type = JStr(<<"b","u","l","l","e","t","_","l","i","s","t">>) ->
              Blank \o When(PyGet(item, <<"s","o","u","r","c","e">>, EmptyStr),
                            BulletsOf(item, srcs, PyGet(item, <<"s","o","u","r","c","e">>, EmptyStr)))
         [] item_type = JStr(<<"t","a","b","l","e">>) ->
              LET table_id == PyGet(item, <<"t","a","b","l","e","_","i","d">>, EmptyStr)
              IN Blank \o
                 (CASE table_id = JStr(<<"p","e","n","s","i","o","n","_","a","r","r","a","n","g","e","m","e","n","t","s">>) ->
                          _add_pension_arrangements_table(srcs)
                    [] table_id = JStr(<<"r","e","c","o","m","m","e","n","d","a","t","i","o","n","_","t","a","b","l","e">>) ->
                          _add_recommendation_table(srcs)
                    [] OTHER -> <<>>)
         [] OTHER ->
              Blank \o _add_paragraph(resolve_placeholders(srcs, PyGet(item, <<"t","e","x","t">>, EmptyStr)))

(* a variant of _process_content_item for which an item without a type is of
   no known type *)
_process_content_item_TypeRequired(item, srcs) ==
    LET item_type == PyGet(item, <<"t","y","p","e">>, EmptyStr)
    IN CASE IsRaised(item_type) -> <<RaiseNode>>
         [] item_type = JStr(<<"p","a","r","a","g","r","a","p","h">>) ->
              Blank \o _add_paragraph(resolve_placeholders(srcs, PyGet(item, <<"t","e","x","t">>, EmptyStr)))
         [] item_type = JStr(<<"h","e","a","d","i","n","g","2">>) ->
              Blank \o _add_heading2(resolve_placeholders(srcs, PyGet(item, <<"t","e","x","t">>, EmptyStr)))
         [] item_type = JStr(<<"b","u","l","l","e","t","_","l","i","s","t">>) ->
              Blank \o When(PyGet(item, <<"s","o","u","r","c","e">>, EmptyStr),
                            BulletsOf(item, srcs, PyGet(item, <<"s","o","u","r","c","e">>, EmptyStr)))
         [] item_type = JStr(<<"t","a","b","l","e">>) ->
              LET table_id == PyGet(item, <<"t","a","b","l","e","_","i","d">>, EmptyStr)
              IN Blank \o
                 (CASE table_id = JStr(<<"p","e","n","s","i","o","n","_","a","r","r","a","n","g","e","m","e","n","t","s">>) ->
                          _add_pension_arrangements_table(srcs)
                    [] table_id = JStr(<<"r","e","c","o","m","m","e","n","d","a","t","i","o","n","_","t","a","b","l","e">>) ->
                          _add_recommendation_table(srcs)
                    [] OTHER -> <<>>)
         [] OTHER -> <<>>

(* a variant of _process_content_item that knows the table id employer_scheme
   as well *)
_process_content_item_EmployerToo(item, srcs) ==
    LET item_type == PyGet(item, <<"t","y","p","e">>, JStr(<<"p","a","r","a","g","r","a","p","h">>))
    IN CASE IsRaised(item_type) -> <<RaiseNode>>
         [] item_type = JStr(<<"p","a","r","a","g","r","a","p","h">>) ->
              Blank \o _add_paragraph(resolve_placeholders(srcs, PyGet(item, <<"t","e","x","t">>, EmptyStr)))
         [] item_type = JStr(<<"h","e","a","d","i","n","g","2">>) ->
              Blank \o _add_heading2(resolve_placeholders(srcs, PyGet(item, <<"t","e","x","t">>, EmptyStr)))
         [] item_type = JStr(<<"b","u","l","l","e","t","_","l","i","s","t">>) ->
              Blank \o When(PyGet(item, <<"s","o","u","r","c","e">>, EmptyStr),
                            BulletsOf(item, srcs, PyGet(item, <<"s","o","u","r","c","e">>, EmptyStr)))
         [] item_type = JStr(<<"t","a","b","l","e">>) ->
              LET table_id == PyGet(item, <<"t","a","b","l","e","_","i","d">>, EmptyStr)
              IN Blank \o
                 (CASE table_id = JStr(<<"p","e","n","s","i","o","n","_","a","r","r","a","n","g","e","m","e","n","t","s">>) ->
                          _add_pension_arrangements_table(srcs)
                    [] table_id = JStr(<<"r","e","c","o","m","m","e","n","d","a","t","i","o","n","_","t","a","b","l","e">>) ->
                          _add_recommendation_table(srcs)
                    [] table_id = JStr(<<"e","m","p","l","o","y","e","r","_","s","c","h","e","m","e">>) ->
                          _add_employer_scheme_table(srcs)
                    [] OTHER -> <<>>)
         [] OTHER -> <<>>

_process_content_item(item, srcs) ==
    LET item_type == PyGet(item, <<"t","y","p","e">>, JStr(<<"p","a","r","a","g","r","a","p","h">>))
    IN CASE IsRaised(item_type) -> <<RaiseNode>>
         [] item_type = JStr(<<"p","a","r","a","g","r","a","p","h">>) ->
              Blank \o _add_paragraph(resolve_placeholders(srcs, PyGet(item, <<"t","e","x","t">>, EmptyStr)))
         [] item_type = JStr(<<"h","e","a","d","i","n","g","2">>) ->
              Blank \o _add_heading2(resolve_placeholders(srcs, PyGet(item, <<"t","e","x","t">>, EmptyStr)))
         [] item_type = JStr(<<"b","u","l","l","e","t","_","l","i","s","t">>) ->
              Blank \o When(PyGet(item, <<"s","o","u","r","c","e">>, EmptyStr),
                            BulletsOf(item, srcs, PyGet(item, <<"s","o","u","r","c","e">>, EmptyStr)))
         [] item_type = JStr(<<"t","a","b","l","e">>) ->
              LET table_id == PyGet(item, <<"t","a","b","l","e","_","i","d">>, EmptyStr)
              IN Blank \o
                 (CASE table_id = JStr(<<"p","e","n","s","i","o","n","_","a","r","r","a","n","g","e","m","e","n","t","s">>) ->
                          _add_pension_arrangements_table(srcs)
                    [] table_id = JStr(<<"r","e","c","o","m","m","e","n","d","a","t","i","o","n","_","t","a","b","l","e">>) ->
                          _add_recommendation_table(srcs)
                    [] OTHER -> <<>>)
         [] OTHER -> <<>>

ProcessContent(content, srcs) ==
    ForEach(content, LAMBDA item : _process_content_item(item, srcs))

-----------------------------------------------------------------------------
(* The generation phases *)

_generate_scottish_widows_details(srcs) ==
    LET plan_name == DataGet(srcs, <<"c","f","r",".","p","e","n","s","i","o","n","_","a","r","r","a","n","g","e","m","e","n","t","s",".","s","c","o","t","t","i","s","h","_","w","i","d","o","w","s",".","p","r","o","v","i","d","e","r","_","p","l","a","n">> (* cfr.pension_arrangements.scottish_widows.provider_plan *))
        ceding == PyGet(PyGet(srcs, ceding_info, EmptyDict), <<"s","c","o","t","t","i","s","h","_","w","i","d","o","w","s","_","d","e","t","a","i","l","s">>, EmptyDict)
        Investment(inv) ==
            add_indented(Fmt(<<Lit("o   "), PyGet(inv, <<"f","u","n","d","_","n","a","m","e">>, EmptyStr),
                               Lit("                 "), PyGet(inv, <<"v","a","l","u","e">>, EmptyStr)>>))
        charges == PyGet(ceding, <<"c","h","a","r","g","e","s">>, EmptyDict)
    IN Concat(<<
        Blank,
        _add_heading2(plan_name),
        _add_bullet(PyGet(ceding, <<"p","l","a","n","_","c","o","m","m","e","n","c","e","d">>, EmptyStr)),
        _add_bullet(PyGet(ceding, <<"c","o","n","t","r","i","b","u","t","i","o","n","_","s","t","a","t","u","s">>, EmptyStr)),
        _add_bullet(PyGet(ceding, <<"l","a","s","t","_","c","o","n","t","r","i","b","u","t","i","o","n">>, EmptyStr)),
        _add_bullet(PyGet(ceding, <<"t","r","a","n","s","f","e","r","s","_","i","n">>, EmptyStr)),
        _add_bullet(PyGet(ceding, <<"b","u","l","k","_","t","r","a","n","s","f","e","r">>, EmptyStr)),
        _add_bullet(PyGet(ceding, <<"p","r","o","t","e","c","t","e","d","_","t","f","c">>, EmptyStr)),
        _add_bullet(Lit("Your plan is invested in as follows:")),
        ForEach(PyGet(ceding, <<"i","n","v","e","s","t","m","e","n","t","s">>, EmptyList), Investment),
        _add_bullet(Lit("The only charges applicable to the plan are:")),
        add_indented(Fmt(<<Lit("o   Annual management charge                              "),
            PyGet(charges, <<"a","n","n","u","a","l","_","m","a","n","a","g","e","m","e","n","t","_","c","h","a","r","g","e">>, EmptyStr)>>)),
        add_indented(Fmt(<<Lit("o   Fund charge                                           "),
            PyGet(charges, <<"f","u","n","d","_","c","h","a","r","g","e">>, EmptyStr)>>)),
        ForEach(PyGet(ceding, <<"a","d","d","i","t","i","o","n","a","l","_","i","n","f","o">>, EmptyList), _add_bullet) >>)

_generate_lsa_lsdba_section(srcs) ==
    Concat(<<
        Blank,
        _add_heading2(Lit("Lump Sum Allowance (LSA) and Lump Sum and Death Benefit Allowance (LSDBA)")),
        Blank,
        _add_paragraph(Lit("The Lump Sum Allowance (LSA) is the maximum amount of tax-free lump sum which could be paid from your pensions during your lifetime.")),
        Blank,
        _add_paragraph(Lit("The Lump Sum and Death Benefit Allowance (LSDBA) is the maximum tax-free lump sum which can be paid from your pensions during your lifetime (but this is usually first limited by your LSA) and on your death if you die before age 75.")),
        Blank,
        _add_paragraph(Lit("When drawing pension benefits during your lifetime, the tax-free lump sum available is dependent on the value of your pension, as well as your remaining LSA and LSDBA at that point. Lump sums withdrawn over your remaining allowances will be subject to Income Tax.")),
        Blank,
        _add_paragraph(Lit("Your LSA is GBP 268,275 and your LSDBA is GBP 1.0731 million.")),
        Blank,
        add_bold(DataGet(srcs, <<"u","s","e","r","_","i","n","p","u","t",".","m","p","a","a","_","s","t","a","t","e","m","e","n","t">> (* user_input.mpaa_statement *))) >>)

_generate_part1(tpl, srcs) ==
    LET part1 == PyGet(tpl, <<"p","a","r","t","1">>, EmptyDict)
    IN Concat(<<
        add_page_break,
        _add_heading1(PyGet(part1, <<"h","e","a","d","i","n","g","1">>, Lit("Part 1 - Your Objectives, Needs and Circumstances"))),
        Blank,
        _add_heading2(PyGet(part1, <<"h","e","a","d","i","n","g","2">>, Lit("Your Immediate Objectives"))),
        ProcessContent(PyGet(part1, <<"c","o","n","t","e","n","t">>, EmptyList), srcs),
        _generate_scottish_widows_details(srcs),
        _generate_lsa_lsdba_section(srcs) >>)

_generate_part2(tpl, srcs) ==
    LET part2 == PyGet(tpl, <<"p","a","r","t","2">>, EmptyDict)
        employer == PyGet(PyGet(srcs, user_input, EmptyDict), <<"e","m","p","l","o","y","e","r","_","s","c","h","e","m","e">>, EmptyDict)
        cyc_ == PyGet(PyGet(srcs, cyc, EmptyDict), <<"e","m","p","l","o","y","e","r","_","s","c","h","e","m","e","_","c","o","m","p","a","r","i","s","o","n">>, EmptyDict)
    IN Concat(<<
        add_page_break,
        _add_heading1(PyGet(part2, <<"h","e","a","d","i","n","g","1">>, Lit("Part 2 - My Recommendation"))),
        Blank,
        _add_heading2(PyGet(part2, <<"h","e","a","d","i","n","g","2">>, Lit("Recommended Actions"))),
        ProcessContent(PyGet(part2, <<"c","o","n","t","e","n","t">>, EmptyList), srcs),
        Blank,
        _add_heading2(Lit("Employer Schemes")),
        _add_paragraph(Fmt(<<Lit("Your employer offers you the benefit of contribution matching for your current scheme. "),
            PyGet(employer, <<"c","o","n","t","r","i","b","u","t","i","o","n","_","m","a","t","c","h","i","n","g","_","s","t","a","t","u","s">>, EmptyStr)>>)),
        Blank,
        _add_employer_scheme_table(srcs),
        Blank,
        _add_paragraph(Fmt(<<Lit("Your employer's scheme has charges of "),
            PyGet(cyc_, <<"e","m","p","l","o","y","e","r","_","s","c","h","e","m","e","_","c","h","a","r","g","e">>, EmptyStr),
            Lit(" per annum compared to the charges on your St. James's Place Retirement Account of "),
            PyGet(cyc_, <<"s","j","p","_","c","h","a","r","g","e">>, EmptyStr),
            Lit(" per annum. This means the recommended plan would need to grow by "),
            PyGet(cyc_, <<"o","u","t","p","e","r","f","o","r","m","a","n","c","e","_","r","e","q","u","i","r","e","d">>, EmptyStr),
            Lit(" more per annum, or "),
            PyGet(cyc_, <<"m","o","n","e","t","a","r","y","_","e","q","u","i","v","a","l","e","n","t","_","f","i","r","s","t","_","y","e","a","r">>, EmptyStr),
            Lit(" more in the first year, than your employer's scheme in order to match the fund you could have had if you had invested via your employer scheme.")>>)),
        Blank,
        _add_paragraph(Fmt(<<Lit("Taking into account my calculations, I have recommended you contribute to a St. James's Place Retirement Account rather than your employer's scheme because "),
            PyGet(employer, <<"s","j","p","_","v","s","_","e","m","p","l","o","y","e","r","_","r","e","a","s","o","n">>, EmptyStr)>>)),
        Blank,
        _add_heading2(Lit("Salary Sacrifice")),
        _add_paragraph(DataGet(srcs, <<"i","l","l","u","s","t","r","a","t","i","o","n",".","s","a","l","a","r","y","_","s","a","c","r","i","f","i","c","e",".","d","e","s","c","r","i","p","t","i","o","n">> (* illustration.salary_sacrifice.description *))),
        Blank,
        _add_heading2(Lit("Use of the Legacy Preservation Trust")),
        _add_paragraph(Lit("I have recommended you set up a Legacy Preservation Trust, a provision which we offer as part of our standard service and at no additional cost to you. It is specifically designed to receive death benefits, including accrued pension funds, from most pension schemes. If used on death, the trust will protect your pension benefits for your beneficiaries and will prevent the value of the pension forming part of their individual estates for Inheritance Tax purposes.")),
        Blank,
        _add_paragraph(Lit("While you accepted my recommendation, you have not yet completed the necessary paperwork as you are still deciding on how to structure the Trust. I left the relevant paperwork with you, and you will look to complete this as soon as possible as you understand until this has been completed, the Trust will not be created.")),
        Blank,
        _add_paragraph(Lit("I have also recommended you complete an Expression of Wish form, which you have agreed to. An Expression of Wish form ensures that your wishes are considered prior to payment of your pension death benefits. Please provide your completed form as soon as you can, and I will update your record.")) >>)

_generate_part3(tpl, srcs) ==
    LET part3 == PyGet(tpl, <<"p","a","r","t","3">>, EmptyDict)
        ceding == PyGet(PyGet(srcs, ceding_info, EmptyDict), <<"d","i","s","a","d","v","a","n","t","a","g","e","s">>, EmptyDict)
        cyc_disadvantages == PyGet(PyGet(srcs, cyc, EmptyDict), <<"d","i","s","a","d","v","a","n","t","a","g","e","s">>, EmptyDict)
        special_terms == PyGet(PyGet(srcs, cyc, EmptyDict), <<"s","p","e","c","i","a","l","_","t","e","r","m","s">>, EmptyDict)
    IN Concat(<<
        add_page_break,
        _add_heading1(PyGet(part3, <<"h","e","a","d","i","n","g","1">>, Lit("Part 3 - Impact of Replacement"))),
        Blank,
        _add_heading2(PyGet(part3, <<"h","e","a","d","i","n","g","2">>, Lit("Pension Plans to be transferred"))),
        _add_transfer_impact_table(srcs),
        Blank,
        add_bold(DataGet(srcs, <<"c","f","r",".","p","e","n","s","i","o","n","_","a","r","r","a","n","g","e","m","e","n","t","s",".","s","c","o","t","t","i","s","h","_","w","i","d","o","w","s",".","p","r","o","v","i","d","e","r","_","p","l","a","n">> (* cfr.pension_arrangements.scottish_widows.provider_plan *))),
        Blank,
        _add_heading2(Lit("Changes to Your Tax-Free Cash Entitlement")),
        _add_paragraph(Lit("There will be no change to your tax-free cash entitlement from the uncrystallised funds relating to the transfer of your plan from Scottish Widows.")),
        Blank,
        _add_heading2(Lit("The Impact of Charges on your Benefits")),
        _add_paragraph(Lit("Moving funds as recommended into a Retirement Account will usually mean there will be a change in the level of charges which you pay. As part of my recommendation, I have therefore considered the difference in charges between your existing arrangements and the Retirement Account and set out the results in the table below.")),
        Blank,
        _add_paragraph(Fmt(<<Lit("Our comparison includes the product charge, fund charge, ongoing advice charge and initial charge (as detailed in appendix). For our calculations, the initial charge has been spread over "),
            DataGet(srcs, <<"c","y","c",".","c","h","a","r","g","e","s","_","s","p","r","e","a","d","_","p","e","r","i","o","d">> (* cyc.charges_spread_period *)),
            Lit(".")>>)),
        Blank,
        _add_paragraph(Lit("The outperformance shown below is the additional growth your Retirement Account needs to achieve to match these funds, based on the increase in charges. If this level of outperformance is not achieved, your fund and therefore the benefits it can pay, will be lower than if you had not transferred.")),
        Blank,
        _add_outperformance_table(srcs),
        Blank,
        _add_heading2(Lit("Potential Disadvantages of Replacing Your Existing Plan")),
        _add_paragraph(Lit("In addition to the above points the proposed Retirement Account has the following disadvantages:")),
        _add_bullet(PyGet(ceding, <<"h","i","g","h","e","r","_","c","h","a","r","g","e","s">>, Lit("Higher charges"))),
        _add_bullet(PyGet(cyc_disadvantages, <<"n","e","w","_","i","n","i","t","i","a","l","_","a","d","v","i","c","e","_","c","h","a","r","g","e">>, Lit("A new Initial Advice Charge will be applied"))),
        _add_bullet(PyGet(ceding, <<"f","e","w","e","r","_","f","u","n","d","s">>, Lit("Fewer funds to invest in"))),
        _add_bullet(PyGet(ceding, <<"l","o","s","s","_","l","i","f","e","s","t","y","l","i","n","g">>, Lit("Loss of Lifestyling"))),
        _add_bullet(PyGet(ceding, <<"l","o","s","s","_","d","e","a","t","h","_","c","o","v","e","r">>, Lit("Loss of accidental death cover"))),
        Blank,
        _add_heading2(Lit("Special terms")),
        _add_paragraph(Lit("Following the calculation of the impact of the difference in charges between the recommended St. James's Place Retirement Account and your existing arrangements, I have arranged Special Terms to reduce the Initial Advice Charge payable on transfer to the St. James's Place Retirement Account. These are reflected in the reduced charges shown on the Illustration that accompanies this report.")),
        Blank,
        _add_paragraph(Fmt(<<Lit("After applying these terms, the combined outperformance is "),
            PyGet(special_terms, <<"c","o","m","b","i","n","e","d","_","o","u","t","p","e","r","f","o","r","m","a","n","c","e">>, EmptyStr),
            Lit(" per annum which is equivalent to "),
            PyGet(special_terms, <<"m","o","n","e","t","a","r","y","_","e","q","u","i","v","a","l","e","n","t">>, EmptyStr),
            Lit(" in the next twelve months.")>>)),
        Blank,
        _add_paragraph(Lit("You understand past performance is no guide to future performance and there is no guarantee St. James's Place funds will outperform an existing provider. Having discussed this in detail, you felt there was a reasonable opportunity for sufficient growth to be achieved and you are willing to accept the risk it might not be.")) >>)

_generate_part4(tpl, srcs) ==
    LET part4 == PyGet(tpl, <<"p","a","r","t","4">>, EmptyDict)
        investment_bullets == DataGet(srcs, <<"c","f","r",".","c","l","i","e","n","t","_","p","r","o","f","i","l","e",".","i","n","v","e","s","t","m","e","n","t","_","k","n","o","w","l","e","d","g","e","_","b","u","l","l","e","t","s">> (* cfr.client_profile.investment_knowledge_bullets *))
        capacity_bullets == DataGet(srcs, <<"c","f","r",".","c","l","i","e","n","t","_","p","r","o","f","i","l","e",".","c","a","p","a","c","i","t","y","_","f","o","r","_","l","o","s","s","_","b","u","l","l","e","t","s">> (* cfr.client_profile.capacity_for_loss_bullets *))
        ListBullets(x) == IF x.t = "list" THEN ForEach(x, _add_bullet) ELSE <<>>
    IN Concat(<<
        add_page_break,
        _add_heading1(PyGet(part4, <<"h","e","a","d","i","n","g","1">>, Lit("Part 4 - Your Attitude to Risk and fund selection"))),
        Blank,
        _add_paragraph(Lit("We had a conversation about investment risk as part of our discussions. Some key factors we discussed were your objectives, your investment experience, the time horizon over which you are investing and your attitude to, and ability to withstand, investment losses.")),
        Blank,
        _add_paragraph(Lit("We also discussed the range of example portfolios and funds offered by St. James's Place, and the importance of holding a diversified range of investments.")),
        Blank,
        _add_heading2(Lit("Your investment knowledge and experience")),
        _add_paragraph(Lit("When considering your level of investment knowledge and experience, a key factor is the extent to which your existing or previous investments have been exposed to market volatility.")),
        Blank,
        _add_paragraph(DataGet(srcs, <<"c","f","r",".","c","l","i","e","n","t","_","p","r","o","f","i","l","e",".","i","n","v","e","s","t","m","e","n","t","_","k","n","o","w","l","e","d","g","e","_","i","n","t","r","o">> (* cfr.client_profile.investment_knowledge_intro *))),
        ListBullets(investment_bullets),
        Blank,
        _add_heading2(Lit("Your capacity for loss")),
        _add_paragraph(Lit("Capacity for loss relates to your ability to withstand investment losses and cope financially should there be a market downturn either at the point you need to access your investment, or if investment returns are less favourable than expected. Considering your capacity for loss, in conjunction with your investment knowledge and experience, is particularly important when making investment decisions.")),
        Blank,
        _add_paragraph(DataGet(srcs, <<"c","f","r",".","c","l","i","e","n","t","_","p","r","o","f","i","l","e",".","c","a","p","a","c","i","t","y","_","f","o","r","_","l","o","s","s","_","i","n","t","r","o">> (* cfr.client_profile.capacity_for_loss_intro *))),
        ListBullets(capacity_bullets),
        Blank,
        _add_paragraph(Fmt(<<Lit("An emergency fund of "),
            DataGet(srcs, <<"c","f","r",".","c","l","i","e","n","t","_","p","r","o","f","i","l","e",".","e","m","e","r","g","e","n","c","y","_","f","u","n","d">> (* cfr.client_profile.emergency_fund *)),
            Lit(" is held in accessible cash accounts.")>>)),
        Blank,
        _add_paragraph(Fmt(<<Lit("I believe that your emergency fund is sufficient for your needs because "),
            DataGet(srcs, <<"u","s","e","r","_","i","n","p","u","t",".","c","l","i","e","n","t","_","p","r","o","f","i","l","e",".","e","m","e","r","g","e","n","c","y","_","f","u","n","d","_","r","e","a","s","o","n">> (* user_input.client_profile.emergency_fund_reason *))>>)),
        Blank,
        _add_heading2(Lit("Your Risk Profile")),
        _add_paragraph(Fmt(<<Lit("Taking into account all these factors, we agreed you are a "),
            DataGet(srcs, <<"u","s","e","r","_","i","n","p","u","t",".","c","l","i","e","n","t","_","p","r","o","f","i","l","e",".","r","i","s","k","_","p","r","o","f","i","l","e">> (* user_input.client_profile.risk_profile *)),
            Lit(" Risk investor on our risk spectrum. Investors in this category are willing to take a balanced approach to investment risk. Such investors would like the value of their money to keep pace with inflation and are prepared to invest over a minimum of five years. However, neither do they want to take too much investment risk. Therefore, any investment in this category will be invested, either with a more balanced weighting between equities, bonds and gilts, or a higher weighting to equities. This is to enable moderate growth over the longer term, compared to investment solely into cash, bonds or gilts. Such investors can accept moderate to significant falls in the value of their investment and also understand it is possible to lose some of their initial money (capital).")>>)),
        Blank,
        _add_paragraph(Lit("I recommended that you invest in a fund selection as follows:")),
        Blank,
        _add_paragraph(Lit("Contribution: Transfer")),
        _add_fund_selection_table(srcs),
        Blank,
        _add_paragraph(DataGet(srcs, <<"u","s","e","r","_","i","n","p","u","t",".","f","u","n","d","_","s","e","l","e","c","t","i","o","n",".","r","e","c","o","m","m","e","n","d","a","t","i","o","n","_","r","e","a","s","o","n">> (* user_input.fund_selection.recommendation_reason *))),
        _add_paragraph(DataGet(srcs, <<"i","l","l","u","s","t","r","a","t","i","o","n",".","f","u","n","d","_","s","e","l","e","c","t","i","o","n",".","o","v","e","r","a","l","l","_","e","q","u","i","t","y","_","c","o","n","t","e","n","t">> (* illustration.fund_selection.overall_equity_content *))),
        Blank,
        _add_paragraph(DataGet(srcs, <<"u","s","e","r","_","i","n","p","u","t",".","f","u","n","d","_","s","e","l","e","c","t","i","o","n",".","a","d","d","i","t","i","o","n","a","l","_","f","u","n","d","_","n","o","t","e","s">> (* user_input.fund_selection.additional_fund_notes *))) >>)

_generate_appendix_i(srcs) ==
    Concat(<<
        add_page_break,
        _add_heading1(Lit("Appendix i - Further details to the background of the recommendation made")),
        Blank,
        _add_paragraph(Lit("This Appendix summarises further factual information which I learnt during our discussions and acts as a useful aid to explaining the reasons for my recommendations.")),
        Blank,
        _add_heading2(Lit("Liabilities")),
        _add_paragraph(Fmt(<<Lit("There were "),
            DataGet(srcs, <<"u","s","e","r","_","i","n","p","u","t",".","c","l","i","e","n","t","_","p","r","o","f","i","l","e",".","d","e","b","t","s">> (* user_input.client_profile.debts *)),
            Lit(" to consider as part of my recommendation")>>)),
        Blank,
        _add_heading2(Lit("Alternatives Available - Existing Provider(s)")),
        _add_paragraph(Lit("The plan being transferred could have been left as they are now, and an attempt made to resolve any concerns directly with the existing providers. This would avoid any increase in charges on transfer.")),
        Blank,
        _add_paragraph(Fmt(<<Lit("Having considered this option and the reasons for wanting to transfer, this was not recommended because "),
            DataGet(srcs, <<"u","s","e","r","_","i","n","p","u","t",".","c","l","i","e","n","t","_","p","r","o","f","i","l","e",".","a","l","t","e","r","n","a","t","i","v","e","_","n","o","t","_","r","e","c","o","m","m","e","n","d","e","d","_","r","e","a","s","o","n">> (* user_input.client_profile.alternative_not_recommended_reason *))>>)),
        Blank,
        _add_heading2(Lit("Alternatives Available - Stakeholder Scheme")),
        _add_paragraph(Lit("The rules for a Stakeholder plan do not allow advice charges to be paid via the plan meaning these charges have to be paid separately from your taxed income. As a result of this, the overall cost difference is typically not material, depending on your fund selection. A recommendation for a St. James's Place Retirement Account allows access to the St. James's Place Approach to Investment Management at essentially no additional cost. A contribution into a Stakeholder plan has therefore not been considered.")),
        Blank,
        _add_heading2(Lit("Death Benefits")),
        _add_paragraph(Lit("On your death, your beneficiaries can take benefits from your pension fund as either; an income, a lump sum paid to them or paid to a trust, or a combination of these.")),
        Blank,
        _add_paragraph(Lit("If you die before age 75, your pension death benefits can usually be paid tax free, as long as benefits are taken within two years of the scheme being notified of your death, and any relevant lump sum payments are within your remaining Lump Sum and Death Benefit Allowance (LSDBA). Relevant lump sum payments over your LSDBA that are paid to a beneficiary will be subject to Income Tax payable at their highest marginal rate, and if paid to a discretionary trust, tax will be payable at 45%.")),
        Blank,
        _add_paragraph(Lit("If you die after you reach age 75, any benefits paid to your beneficiaries will be subject to Income Tax payable at their highest marginal rate. If benefits are paid to a discretionary trust, they will be subject to a 45% tax charge.")),
        Blank,
        _add_paragraph(Lit("The October 2024 Budget announced that from April 2027, on death, most pension funds will form part of the estate for Inheritance Tax purposes, regardless of whether the benefit is paid to an individual or trust. Legislation is currently being drafted, so it is subject to change. As part of our ongoing reviews, we will consider the impact on your estate and any appropriate action required.")),
        Blank,
        _add_heading2(Lit("Further Relevant Client Specific Information")),
        _add_paragraph(Fmt(<<Lit("You have an income of "),
            DataGet(srcs, <<"c","f","r",".","c","l","i","e","n","t","_","p","r","o","f","i","l","e",".","a","n","n","u","a","l","_","i","n","c","o","m","e">> (* cfr.client_profile.annual_income *)),
            Lit(" per annum which falls into the "),
            DataGet(srcs, <<"c","f","r",".","c","l","i","e","n","t","_","p","r","o","f","i","l","e",".","t","a","x","_","b","r","a","c","k","e","t">> (* cfr.client_profile.tax_bracket *)),
            Lit(" tax bracket.")>>)),
        Blank,
        _add_paragraph(Fmt(<<DataGet(srcs, <<"c","f","r",".","c","l","i","e","n","t","_","p","r","o","f","i","l","e",".","h","a","s","_","w","i","l","l">> (* cfr.client_profile.has_will *)),
            Lit(", so I recommended you seek legal advice to review your Will arrangements.")>>)),
        Blank,
        _add_paragraph(Lit("I recommend you seek legal advice to arrange a Power of Attorney to ensure someone you trust can manage your personal or financial affairs if you lose capacity.")),
        Blank,
        _add_heading2(Lit("Determining Your Attitude to Risk (ATR)")),
        _add_paragraph(Lit("We had a conversation about investment risk as part of our discussions. Some key factors we discussed were your objectives, your investment experience, the time horizon over which you are investing and your attitude to, and ability to withstand, investment losses.")),
        Blank,
        _add_paragraph(Fmt(<<Lit("You intend to use your investment to "),
            DataGet(srcs, <<"u","s","e","r","_","i","n","p","u","t",".","c","l","i","e","n","t","_","p","r","o","f","i","l","e",".","i","n","v","e","s","t","m","e","n","t","_","a","i","m">> (* user_input.client_profile.investment_aim *)),
            Lit(".")>>)),
        Blank,
        _add_paragraph(Fmt(<<Lit("With this aim in mind, the timeframe for your investment into your St. James's Place Retirement Account is "),
            DataGet(srcs, <<"i","l","l","u","s","t","r","a","t","i","o","n",".","i","n","v","e","s","t","m","e","n","t","_","t","i","m","e","f","r","a","m","e">> (* illustration.investment_timeframe *))>>)) >>)

_generate_appendix(tpl, srcs) ==
    LET appendix == PyGet(tpl, <<"a","p","p","e","n","d","i","x">>, EmptyDict)
    IN Concat(<<
        add_section,
        _add_heading1(PyGet(appendix, <<"t","i","t","l","e">>, Lit("Appendix ii - Product Comparison"))),
        Blank,
        _add_product_comparison_table(srcs) >>)

(* TemplateDocumentGenerator._add_page_numbers: a PAGE field in the footer of
   every section of the document, the first section and each one added *)
_add_page_numbers(d) ==
    Concat([i \in 1..(1 + Cardinality({j \in 1..Len(d) : d[j].kind = "section"})) |->
               Node("footer_page_field", Lit(" PAGE "))])

-----------------------------------------------------------------------------
(* Inputs of generation: a template structure and five sources that hold every
   key the code reads, from which the initial states take keys away *)

FullTemplate ==
    JDict(<< << <<"s","t","y","l","e","s">>,
                JDict(<< << <<"d","o","c","u","m","e","n","t">>,
                            JDict(<< << <<"f","o","n","t","_","f","a","m","i","l","y">>,
                                        JStr(<<"A","r","i","a","l">>) >>,
                                     << <<"f","o","n","t","_","s","i","z","e">>,
                                        JInt(11) >>,
                                     << <<"l","i","n","e","_","s","p","a","c","i","n","g">>,
                                        JInt(1) >> >>) >> >>) >>,
             << <<"p","a","g","e","s">>,
                JDict(<< << <<"l","e","t","t","e","r">>,
                            JDict(<< << <<"m","a","r","g","i","n","s">>,
                                        JDict(<< << <<"t","o","p">>,
                                                    JInt(1) >>,
                                                 << <<"b","o","t","t","o","m">>,
                                                    JInt(1) >>,
                                                 << <<"l","e","f","t">>,
                                                    JInt(2) >>,
                                                 << <<"r","i","g","h","t">>,
                                                    JInt(2) >> >>) >> >>) >> >>) >>,
             << <<"t","e","m","p","l","a","t","e">>,
                JDict(<< << <<"l","e","t","t","e","r">>,
                            JDict(<< << <<"c","o","n","f","i","d","e","n","t","i","a","l">>,
                                        JStr(<<"v","1">>) >>,
                                     << <<"v","a","l","e","d","i","c","t","i","o","n">>,
                                        JStr(<<"v","2">>) >>,
                                     << <<"c","l","o","s","i","n","g","_","c","o","m","p","a","n","y">>,
                                        JStr(<<"v","3">>) >> >>) >>,
                         << <<"i","n","t","r","o","_","p","a","r","a","g","r","a","p","h","s">>,
                            JList(<< JStr(<<"H","i"," ","{","u","s","e","r","_","i","n","p","u","t",".","l","e","t","t","e","r","_","d","e","t","a","i","l","s",".","c","l","i","e","n","t","_","f","i","r","s","t","_","n","a","m","e","}">>),
                                     JStr(<<"v","4">>) >>) >>,
                         << <<"p","a","r","t","s","_","i","n","t","r","o">>,
                            JStr(<<"v","5">>) >>,
                         << <<"p","a","r","t","s","_","b","u","l","l","e","t","s">>,
                            JList(<< JStr(<<"v","6">>),
                                     JStr(<<"v","7">>) >>) >>,
                         << <<"a","p","p","e","n","d","i","x","_","i","n","t","r","o">>,
                            JStr(<<"v","8">>) >>,
                         << <<"o","t","h","e","r","_","d","o","c","u","m","e","n","t","a","t","i","o","n">>,
                            JDict(<< << <<"h","e","a","d","i","n","g">>,
                                        JStr(<<"v","9">>) >>,
                                     << <<"i","n","t","r","o">>,
                                        JStr(<<"v","1","0">>) >>,
                                     << <<"b","u","l","l","e","t","s">>,
                                        JList(<< JStr(<<"v","1","1">>) >>) >>,
                                     << <<"c","l","o","s","i","n","g">>,
                                        JStr(<<"v","1","2">>) >> >>) >>,
                         << <<"o","n","g","o","i","n","g","_","a","d","v","i","c","e">>,
                            JDict(<< << <<"h","e","a","d","i","n","g">>,
                                        JStr(<<"v","1","3">>) >>,
                                     << <<"p","a","r","a","g","r","a","p","h","s">>,
                                        JList(<< JStr(<<"{","c","y","c",".","c","h","a","r","g","e","s","_","s","p","r","e","a","d","_","p","e","r","i","o","d","}">>) >>) >> >>) >>,
                         << <<"n","e","x","t","_","s","t","e","p","s">>,
                            JDict(<< << <<"h","e","a","d","i","n","g">>,
                                        JStr(<<"v","1","4">>) >>,
                                     << <<"p","a","r","a","g","r","a","p","h","s">>,
                                        JList(<< JStr(<<"v","1","5">>) >>) >> >>) >> >>) >>,
             << <<"p","a","r","t","1">>,
                JDict(<< << <<"h","e","a","d","i","n","g","1">>,
                            JStr(<<"v","1","6">>) >>,
                         << <<"h","e","a","d","i","n","g","2">>,
                            JStr(<<"v","1","7">>) >>,
                         << <<"c","o","n","t","e","n","t">>,
                            JList(<< JDict(<< << <<"t","y","p","e">>,
                                                 JStr(<<"p","a","r","a","g","r","a","p","h">>) >>,
                                              << <<"t","e","x","t">>,
                                                 JStr(<<"{","c","f","r",".","r","e","c","i","p","i","e","n","t",".","t","i","t","l","e","_","a","n","d","_","n","a","m","e","}","!">>) >> >>),
                                     JDict(<< << <<"t","y","p","e">>,
                                                 JStr(<<"h","e","a","d","i","n","g","2">>) >>,
                                              << <<"t","e","x","t">>,
                                                 JStr(<<"v","1","8">>) >> >>),
                                     JDict(<< << <<"t","y","p","e">>,
                                                 JStr(<<"b","u","l","l","e","t","_","l","i","s","t">>) >>,
                                              << <<"s","o","u","r","c","e">>,
                                                 JStr(<<"c","f","r",".","o","b","j","e","c","t","i","v","e","s">>) >> >>),
                                     JDict(<< << <<"t","y","p","e">>,
                                                 JStr(<<"b","u","l","l","e","t","_","l","i","s","t">>) >>,
                                              << <<"s","o","u","r","c","e">>,
                                                 JStr(<<"c","f","r",".","n","e","e","d","s">>) >>,
                                              << <<"k","e","y","s">>,
                                                 JList(<< JStr(<<"b">>),
                                                          JStr(<<"x">>),
                                                          JStr(<<"a">>) >>) >> >>),
                                     JDict(<< << <<"t","y","p","e">>,
                                                 JStr(<<"b","u","l","l","e","t","_","l","i","s","t">>) >>,
                                              << <<"s","o","u","r","c","e">>,
                                                 JStr(<<"c","f","r",".","n","e","e","d","s">>) >> >>),
                                     JDict(<< << <<"t","y","p","e">>,
                                                 JStr(<<"t","a","b","l","e">>) >>,
                                              << <<"t","a","b","l","e","_","i","d">>,
                                                 JStr(<<"p","e","n","s","i","o","n","_","a","r","r","a","n","g","e","m","e","n","t","s">>) >> >>),
                                     JDict(<< << <<"t","y","p","e">>,
                                                 JStr(<<"n","o","t","e">>) >>,
                                              << <<"t","e","x","t">>,
                                                 JStr(<<"v","1","9">>) >> >>),
                                     JDict(<< << <<"t","e","x","t">>,
                                                 JStr(<<"v","2","0">>) >> >>) >>) >> >>) >>,
             << <<"p","a","r","t","2">>,
                JDict(<< << <<"h","e","a","d","i","n","g","1">>,
                            JStr(<<"v","2","1">>) >>,
                         << <<"h","e","a","d","i","n","g","2">>,
                            JStr(<<"v","2","2">>) >>,
                         << <<"c","o","n","t","e","n","t">>,
                            JList(<< JDict(<< << <<"t","y","p","e">>,
                                                 JStr(<<"t","a","b","l","e">>) >>,
                                              << <<"t","a","b","l","e","_","i","d">>,
                                                 JStr(<<"r","e","c","o","m","m","e","n","d","a","t","i","o","n","_","t","a","b","l","e">>) >> >>),
                                     JDict(<< << <<"t","y","p","e">>,
                                                 JStr(<<"p","a","r","a","g","r","a","p","h">>) >>,
                                              << <<"t","e","x","t">>,
                                                 JStr(<<"v","2","3">>) >> >>) >>) >> >>) >>,
             << <<"p","a","r","t","3">>,
                JDict(<< << <<"h","e","a","d","i","n","g","1">>,
                            JStr(<<"v","2","4">>) >>,
                         << <<"h","e","a","d","i","n","g","2">>,
                            JStr(<<"v","2","5">>) >>,
                         << <<"c","o","n","t","e","n","t">>,
                            JList(<< JDict(<< << <<"t","y","p","e">>,
                                                 JStr(<<"p","a","r","a","g","r","a","p","h">>) >>,
                                              << <<"t","e","x","t">>,
                                                 JStr(<<"v","2","6">>) >> >>) >>) >> >>) >>,
             << <<"p","a","r","t","4">>,
                JDict(<< << <<"h","e","a","d","i","n","g","1">>,
                            JStr(<<"v","2","7">>) >>,
                         << <<"c","o","n","t","e","n","t">>,
                            JList(<< JDict(<< << <<"t","y","p","e">>,
                                                 JStr(<<"p","a","r","a","g","r","a","p","h">>) >>,
                                              << <<"t","e","x","t">>,
                                                 JStr(<<"v","2","8">>) >> >>) >>) >> >>) >>,
             << <<"a","p","p","e","n","d","i","x">>,
                JDict(<< << <<"t","i","t","l","e">>,
                            JStr(<<"v","2","9">>) >> >>) >> >>)

FullCfr ==
    JDict(<< << <<"r","e","c","i","p","i","e","n","t">>,
                JDict(<< << <<"t","i","t","l","e","_","a","n","d","_","n","a","m","e">>,
                            JStr(<<"v","3","0">>) >>,
                         << <<"a","d","d","r","e","s","s","_","l","i","n","e","_","1">>,
                            JStr(<<"v","3","1">>) >>,
                         << <<"a","d","d","r","e","s","s","_","l","i","n","e","_","2">>,
                            JStr(<<"v","3","2">>) >> >>) >>,
             << <<"o","b","j","e","c","t","i","v","e","s">>,
                JList(<< JStr(<<"v","3","3">>),
                         JStr(<<"v","3","4">>),
                         JStr(<<"v","3","5">>) >>) >>,
             << <<"n","e","e","d","s">>,
                JDict(<< << <<"a">>,
                            JStr(<<"v","3","6">>) >>,
                         << <<"b">>,
                            JStr(<<"v","3","7">>) >>,
                         << <<"c">>,
                            JStr(<<"v","3","8">>) >> >>) >>,
             << <<"p","e","n","s","i","o","n","_","a","r","r","a","n","g","e","m","e","n","t","s">>,
                JDict(<< << <<"s","j","p","_","r","e","t","i","r","e","m","e","n","t","_","a","c","c","o","u","n","t">>,
                            JDict(<< << <<"p","r","o","v","i","d","e","r","_","p","l","a","n">>,
                                        JStr(<<"v","3","9">>) >>,
                                     << <<"c","u","r","r","e","n","t","_","v","a","l","u","e">>,
                                        JStr(<<"v","4","0">>) >>,
                                     << <<"t","r","a","n","s","f","e","r","_","v","a","l","u","e">>,
                                        JStr(<<"v","4","1">>) >>,
                                     << <<"o","n","g","o","i","n","g","_","c","o","n","t","r","i","b","u","t","i","o","n">>,
                                        JStr(<<"v","4","2">>) >>,
                                     << <<"p","r","o","p","o","s","e","d","_","a","c","t","i","o","n">>,
                                        JStr(<<"v","4","3">>) >> >>) >>,
                         << <<"s","c","o","t","t","i","s","h","_","w","i","d","o","w","s">>,
                            JDict(<< << <<"p","r","o","v","i","d","e","r","_","p","l","a","n">>,
                                        JStr(<<"v","4","4">>) >>,
                                     << <<"c","u","r","r","e","n","t","_","v","a","l","u","e">>,
                                        JStr(<<"v","4","5">>) >>,
                                     << <<"t","r","a","n","s","f","e","r","_","v","a","l","u","e">>,
                                        JStr(<<"v","4","6">>) >>,
                                     << <<"o","n","g","o","i","n","g","_","c","o","n","t","r","i","b","u","t","i","o","n">>,
                                        JStr(<<"v","4","7">>) >> >>) >>,
                         << <<"a","v","i","v","a">>,
                            JDict(<< << <<"p","r","o","v","i","d","e","r","_","p","l","a","n">>,
                                        JStr(<<"v","4","8">>) >> >>) >> >>) >>,
             << <<"p","a","r","t","2","_","r","e","c","o","m","m","e","n","d","a","t","i","o","n">>,
                JDict(<< << <<"s","o","u","r","c","e","_","p","l","a","n">>,
                            JStr(<<"v","4","9">>) >>,
                         << <<"l","u","m","p","_","s","u","m","_","a","m","o","u","n","t">>,
                            JStr(<<"v","5","0">>) >> >>) >>,
             << <<"p","a","r","t","3","_","i","m","p","a","c","t">>,
                JDict(<< << <<"p","r","o","v","i","d","e","r","_","p","l","a","n">>,
                            JStr(<<"v","5","1">>) >>,
                         << <<"t","r","a","n","s","f","e","r","_","v","a","l","u","e">>,
                            JStr(<<"v","5","2">>) >> >>) >>,
             << <<"c","l","i","e","n","t","_","p","r","o","f","i","l","e">>,
                JDict(<< << <<"i","n","v","e","s","t","m","e","n","t","_","k","n","o","w","l","e","d","g","e","_","i","n","t","r","o">>,
                            JStr(<<"v","5","3">>) >>,
                         << <<"i","n","v","e","s","t","m","e","n","t","_","k","n","o","w","l","e","d","g","e","_","b","u","l","l","e","t","s">>,
                            JList(<< JStr(<<"v","5","4">>),
                                     JStr(<<"v","5","5">>) >>) >>,
                         << <<"c","a","p","a","c","i","t","y","_","f","o","r","_","l","o","s","s","_","i","n","t","r","o">>,
                            JStr(<<"v","5","6">>) >>,
                         << <<"c","a","p","a","c","i","t","y","_","f","o","r","_","l","o","s","s","_","b","u","l","l","e","t","s">>,
                            JList(<< JStr(<<"v","5","7">>) >>) >>,
                         << <<"e","m","e","r","g","e","n","c","y","_","f","u","n","d">>,
                            JStr(<<"v","5","8">>) >>,
                         << <<"a","n","n","u","a","l","_","i","n","c","o","m","e">>,
                            JStr(<<"v","5","9">>) >>,
                         << <<"t","a","x","_","b","r","a","c","k","e","t">>,
                            JStr(<<"v","6","0">>) >>,
                         << <<"h","a","s","_","w","i","l","l">>,
                            JStr(<<"v","6","1">>) >> >>) >> >>)

FullCyc ==
    JDict(<< << <<"e","m","p","l","o","y","e","r","_","s","c","h","e","m","e","_","c","o","m","p","a","r","i","s","o","n">>,
                JDict(<< << <<"e","m","p","l","o","y","e","r","_","s","c","h","e","m","e","_","c","h","a","r","g","e">>,
                            JStr(<<"v","6","2">>) >>,
                         << <<"s","j","p","_","c","h","a","r","g","e">>,
                            JStr(<<"v","6","3">>) >>,
                         << <<"o","u","t","p","e","r","f","o","r","m","a","n","c","e","_","r","e","q","u","i","r","e","d">>,
                            JStr(<<"v","6","4">>) >>,
                         << <<"m","o","n","e","t","a","r","y","_","e","q","u","i","v","a","l","e","n","t","_","f","i","r","s","t","_","y","e","a","r">>,
                            JStr(<<"v","6","5">>) >> >>) >>,
             << <<"c","h","a","r","g","e","s","_","s","p","r","e","a","d","_","p","e","r","i","o","d">>,
                JStr(<<"v","6","6">>) >>,
             << <<"o","u","t","p","e","r","f","o","r","m","a","n","c","e","_","t","a","b","l","e">>,
                JDict(<< << <<"s","c","o","t","t","i","s","h","_","w","i","d","o","w","s">>,
                            JDict(<< << <<"l","e","v","e","l","_","o","f","_","o","u","t","p","e","r","f","o","r","m","a","n","c","e">>,
                                        JStr(<<"v","6","7">>) >>,
                                     << <<"m","o","n","e","t","a","r","y","_","e","q","u","i","v","a","l","e","n","t">>,
                                        JStr(<<"v","6","8">>) >> >>) >> >>) >>,
             << <<"d","i","s","a","d","v","a","n","t","a","g","e","s">>,
                JDict(<< << <<"n","e","w","_","i","n","i","t","i","a","l","_","a","d","v","i","c","e","_","c","h","a","r","g","e">>,
                            JStr(<<"v","6","9">>) >> >>) >>,
             << <<"s","p","e","c","i","a","l","_","t","e","r","m","s">>,
                JDict(<< << <<"c","o","m","b","i","n","e","d","_","o","u","t","p","e","r","f","o","r","m","a","n","c","e">>,
                            JStr(<<"v","7","0">>) >>,
                         << <<"m","o","n","e","t","a","r","y","_","e","q","u","i","v","a","l","e","n","t">>,
                            JStr(<<"v","7","1">>) >> >>) >>,
             << <<"p","r","o","d","u","c","t","_","c","o","m","p","a","r","i","s","o","n">>,
                JDict(<< << <<"s","j","p","_","r","e","t","i","r","e","m","e","n","t","_","a","c","c","o","u","n","t">>,
                            JDict(<< << <<"i","n","i","t","i","a","l","_","a","d","v","i","c","e","_","c","h","a","r","g","e">>,
                                        JStr(<<"v","7","2">>) >>,
                                     << <<"o","n","g","o","i","n","g","_","a","d","v","i","c","e","_","c","h","a","r","g","e">>,
                                        JStr(<<"v","7","3">>) >>,
                                     << <<"o","n","g","o","i","n","g","_","p","r","o","d","u","c","t","_","c","h","a","r","g","e">>,
                                        JStr(<<"v","7","4">>) >>,
                                     << <<"o","n","g","o","i","n","g","_","f","u","n","d","_","c","h","a","r","g","e">>,
                                        JStr(<<"v","7","5">>) >> >>) >> >>) >> >>)

FullIllustration ==
    JDict(<< << <<"a","v","i","v","a","_","p","l","a","n">>,
                JDict(<< << <<"c","u","r","r","e","n","t","_","v","a","l","u","e">>,
                            JStr(<<"v","7","6">>) >>,
                         << <<"t","r","a","n","s","f","e","r","_","v","a","l","u","e">>,
                            JStr(<<"v","7","7">>) >>,
                         << <<"o","n","g","o","i","n","g","_","c","o","n","t","r","i","b","u","t","i","o","n">>,
                            JStr(<<"v","7","8">>) >> >>) >>,
             << <<"s","a","l","a","r","y","_","s","a","c","r","i","f","i","c","e">>,
                JDict(<< << <<"d","e","s","c","r","i","p","t","i","o","n">>,
                            JStr(<<"v","7","9">>) >> >>) >>,
             << <<"f","u","n","d","_","s","e","l","e","c","t","i","o","n">>,
                JDict(<< << <<"o","v","e","r","a","l","l","_","e","q","u","i","t","y","_","c","o","n","t","e","n","t">>,
                            JStr(<<"v","8","0">>) >> >>) >>,
             << <<"i","n","v","e","s","t","m","e","n","t","_","t","i","m","e","f","r","a","m","e">>,
                JStr(<<"v","8","1">>) >> >>)

FullCedingInfo ==
    JDict(<< << <<"s","c","o","t","t","i","s","h","_","w","i","d","o","w","s","_","d","e","t","a","i","l","s">>,
                JDict(<< << <<"p","l","a","n","_","c","o","m","m","e","n","c","e","d">>,
                            JStr(<<"v","8","2">>) >>,
                         << <<"c","o","n","t","r","i","b","u","t","i","o","n","_","s","t","a","t","u","s">>,
                            JStr(<<"v","8","3">>) >>,
                         << <<"l","a","s","t","_","c","o","n","t","r","i","b","u","t","i","o","n">>,
                            JStr(<<"v","8","4">>) >>,
                         << <<"t","r","a","n","s","f","e","r","s","_","i","n">>,
                            JStr(<<"v","8","5">>) >>,
                         << <<"b","u","l","k","_","t","r","a","n","s","f","e","r">>,
                            JStr(<<"v","8","6">>) >>,
                         << <<"p","r","o","t","e","c","t","e","d","_","t","f","c">>,
                            JStr(<<"v","8","7">>) >>,
                         << <<"i","n","v","e","s","t","m","e","n","t","s">>,
                            JList(<< JDict(<< << <<"f","u","n","d","_","n","a","m","e">>,
                                                 JStr(<<"v","8","8">>) >>,
                                              << <<"v","a","l","u","e">>,
                                                 JStr(<<"v","8","9">>) >> >>) >>) >>,
                         << <<"c","h","a","r","g","e","s">>,
                            JDict(<< << <<"a","n","n","u","a","l","_","m","a","n","a","g","e","m","e","n","t","_","c","h","a","r","g","e">>,
                                        JStr(<<"v","9","0">>) >>,
                                     << <<"f","u","n","d","_","c","h","a","r","g","e">>,
                                        JStr(<<"v","9","1">>) >> >>) >>,
                         << <<"a","d","d","i","t","i","o","n","a","l","_","i","n","f","o">>,
                            JList(<< JStr(<<"v","9","2">>) >>) >> >>) >>,
             << <<"p","a","r","t","3","_","t","r","a","n","s","f","e","r","_","d","e","t","a","i","l","s">>,
                JDict(<< << <<"c","h","a","r","g","e","_","o","n","_","t","r","a","n","s","f","e","r">>,
                            JStr(<<"v","9","3">>) >>,
                         << <<"p","r","o","t","e","c","t","e","d","_","t","f","c">>,
                            JStr(<<"v","9","4">>) >>,
                         << <<"g","u","a","r","a","n","t","e","e","s">>,
                            JStr(<<"v","9","5">>) >>,
                         << <<"t","e","r","m","i","n","a","l","_","b","o","n","u","s">>,
                            JStr(<<"v","9","6">>) >> >>) >>,
             << <<"d","i","s","a","d","v","a","n","t","a","g","e","s">>,
                JDict(<< << <<"h","i","g","h","e","r","_","c","h","a","r","g","e","s">>,
                            JStr(<<"v","9","7">>) >>,
                         << <<"f","e","w","e","r","_","f","u","n","d","s">>,
                            JStr(<<"v","9","8">>) >>,
                         << <<"l","o","s","s","_","l","i","f","e","s","t","y","l","i","n","g">>,
                            JStr(<<"v","9","9">>) >>,
                         << <<"l","o","s","s","_","d","e","a","t","h","_","c","o","v","e","r">>,
                            JStr(<<"v","1","0","0">>) >> >>) >>,
             << <<"p","r","o","d","u","c","t","_","c","o","m","p","a","r","i","s","o","n","_","s","c","o","t","t","i","s","h","_","w","i","d","o","w","s">>,
                JDict(<< << <<"i","n","i","t","i","a","l","_","a","d","v","i","c","e","_","c","h","a","r","g","e">>,
                            JStr(<<"v","1","0","1">>) >>,
                         << <<"o","n","g","o","i","n","g","_","a","d","v","i","c","e","_","c","h","a","r","g","e">>,
                            JStr(<<"v","1","0","2">>) >>,
                         << <<"o","n","g","o","i","n","g","_","p","r","o","d","u","c","t","_","c","h","a","r","g","e">>,
                            JStr(<<"v","1","0","3">>) >>,
                         << <<"o","n","g","o","i","n","g","_","f","u","n","d","_","c","h","a","r","g","e">>,
                            JStr(<<"v","1","0","4">>) >>,
                         << <<"a","n","n","u","a","l","_","m","a","n","a","g","e","m","e","n","t","_","c","h","a","r","g","e">>,
                            JStr(<<"v","1","0","5">>) >>,
                         << <<"e","a","r","l","y","_","w","i","t","h","d","r","a","w","a","l","_","c","h","a","r","g","e","s">>,
                            JStr(<<"v","1","0","6">>) >>,
                         << <<"a","l","l","o","c","a","t","i","o","n","_","r","a","t","e">>,
                            JStr(<<"v","1","0","7">>) >>,
                         << <<"t","o","t","a","l","_","e","x","t","e","r","n","a","l","_","c","h","a","r","g","e">>,
                            JStr(<<"v","1","0","8">>) >>,
                         << <<"p","l","a","n","_","c","h","a","r","g","e">>,
                            JStr(<<"v","1","0","9">>) >>,
                         << <<"n","u","m","b","e","r","_","o","f","_","f","u","n","d","s">>,
                            JStr(<<"v","1","1","0">>) >>,
                         << <<"m","a","x","_","f","u","n","d","s">>,
                            JStr(<<"v","1","1","1">>) >>,
                         << <<"g","u","a","r","a","n","t","e","e","s">>,
                            JStr(<<"v","1","1","2">>) >> >>) >> >>)

FullUserInput ==
    JDict(<< << <<"l","e","t","t","e","r","_","d","e","t","a","i","l","s">>,
                JDict(<< << <<"d","a","t","e">>,
                            JStr(<<"v","1","1","3">>) >>,
                         << <<"c","l","i","e","n","t","_","f","i","r","s","t","_","n","a","m","e">>,
                            JStr(<<"v","1","1","4">>) >> >>) >>,
             << <<"c","l","o","s","i","n","g">>,
                JDict(<< << <<"a","d","v","i","s","e","r","_","n","a","m","e">>,
                            JStr(<<"v","1","1","5">>) >>,
                         << <<"a","d","v","i","s","e","r","_","t","i","t","l","e">>,
                            JStr(<<"v","1","1","6">>) >> >>) >>,
             << <<"m","p","a","a","_","s","t","a","t","e","m","e","n","t">>,
                JStr(<<"v","1","1","7">>) >>,
             << <<"p","a","r","t","1","_","o","b","j","e","c","t","i","v","e","s">>,
                JDict(<< << <<"s","c","o","t","t","i","s","h","_","w","i","d","o","w","s","_","p","r","o","p","o","s","e","d","_","a","c","t","i","o","n">>,
                            JStr(<<"v","1","1","8">>) >>,
                         << <<"a","v","i","v","a","_","p","r","o","p","o","s","e","d","_","a","c","t","i","o","n">>,
                            JStr(<<"v","1","1","9">>) >> >>) >>,
             << <<"p","a","r","t","2","_","r","e","c","o","m","m","e","n","d","a","t","i","o","n">>,
                JDict(<< << <<"r","e","g","u","l","a","r","_","c","o","n","t","r","i","b","u","t","i","o","n">>,
                            JStr(<<"v","1","2","0">>) >> >>) >>,
             << <<"e","m","p","l","o","y","e","r","_","s","c","h","e","m","e">>,
                JDict(<< << <<"c","o","n","t","r","i","b","u","t","i","o","n","_","m","a","t","c","h","i","n","g","_","s","t","a","t","u","s">>,
                            JStr(<<"v","1","2","1">>) >>,
                         << <<"c","o","n","t","r","i","b","u","t","i","o","n","_","t","y","p","e">>,
                            JStr(<<"v","1","2","2">>) >>,
                         << <<"s","o","u","r","c","e">>,
                            JStr(<<"v","1","2","3">>) >>,
                         << <<"c","a","n","_","a","c","c","e","p","t">>,
                            JStr(<<"v","1","2","4">>) >>,
                         << <<"s","c","h","e","m","e","_","t","y","p","e">>,
                            JStr(<<"v","1","2","5">>) >>,
                         << <<"s","j","p","_","v","s","_","e","m","p","l","o","y","e","r","_","r","e","a","s","o","n">>,
                            JStr(<<"v","1","2","6">>) >> >>) >>,
             << <<"c","l","i","e","n","t","_","p","r","o","f","i","l","e">>,
                JDict(<< << <<"e","m","e","r","g","e","n","c","y","_","f","u","n","d","_","r","e","a","s","o","n">>,
                            JStr(<<"v","1","2","7">>) >>,
                         << <<"r","i","s","k","_","p","r","o","f","i","l","e">>,
                            JStr(<<"v","1","2","8">>) >>,
                         << <<"d","e","b","t","s">>,
                            JStr(<<"v","1","2","9">>) >>,
                         << <<"a","l","t","e","r","n","a","t","i","v","e","_","n","o","t","_","r","e","c","o","m","m","e","n","d","e","d","_","r","e","a","s","o","n">>,
                            JStr(<<"v","1","3","0">>) >>,
                         << <<"i","n","v","e","s","t","m","e","n","t","_","a","i","m">>,
                            JStr(<<"v","1","3","1">>) >> >>) >>,
             << <<"f","u","n","d","_","s","e","l","e","c","t","i","o","n">>,
                JDict(<< << <<"t","a","b","l","e">>,
                            JList(<< JDict(<< << <<"c","a","t","e","g","o","r","y">>,
                                                 JStr(<<"v","1","3","2">>) >>,
                                              << <<"f","u","n","d","_","s","e","l","e","c","t","i","o","n">>,
                                                 JStr(<<"v","1","3","3">>) >>,
                                              << <<"f","u","n","d","_","t","y","p","e">>,
                                                 JStr(<<"v","1","3","4">>) >>,
                                              << <<"r","i","s","k","_","p","r","o","f","i","l","e">>,
                                                 JStr(<<"v","1","3","5">>) >>,
                                              << <<"p","e","r","c","e","n","t","a","g","e">>,
                                                 JStr(<<"v","1","3","6">>) >> >>),
                                     JDict(<< << <<"c","a","t","e","g","o","r","y">>,
                                                 JStr(<<"v","1","3","7">>) >>,
                                              << <<"f","u","n","d","_","s","e","l","e","c","t","i","o","n">>,
                                                 JStr(<<"v","1","3","8">>) >>,
                                              << <<"f","u","n","d","_","t","y","p","e">>,
                                                 JStr(<<"v","1","3","9">>) >>,
                                              << <<"r","i","s","k","_","p","r","o","f","i","l","e">>,
                                                 JStr(<<"v","1","4","0">>) >>,
                                              << <<"p","e","r","c","e","n","t","a","g","e">>,
                                                 JInt(0) >> >>) >>) >>,
                         << <<"r","e","c","o","m","m","e","n","d","a","t","i","o","n","_","r","e","a","s","o","n">>,
                            JStr(<<"v","1","4","1">>) >>,
                         << <<"a","d","d","i","t","i","o","n","a","l","_","f","u","n","d","_","n","o","t","e","s">>,
                            JStr(<<"v","1","4","2">>) >> >>) >>,
             << <<"p","r","o","d","u","c","t","_","c","o","m","p","a","r","i","s","o","n">>,
                JDict(<< << <<"a","l","l","o","c","a","t","i","o","n","_","r","a","t","e">>,
                            JStr(<<"v","1","4","3">>) >> >>) >> >>)

(* Positions inside a document, as the keys and list indices (written as
   text) that lead to them *)
IndexText(i) == NatStr(i - 1)

RECURSIVE ValuePaths(_)
ValuePaths(x) ==
    CASE x.t = "dict" ->
            UNION {{<<x.v[i][1]>>} \cup {<<x.v[i][1]>> \o p : p \in ValuePaths(x.v[i][2])} :
                   i \in 1..Len(x.v)}
      [] x.t = "list" ->
            UNION {{<<IndexText(i)>>} \cup {<<IndexText(i)>> \o p : p \in ValuePaths(x.v[i])} :
                   i \in 1..Len(x.v)}
      [] OTHER -> {}

RECURSIVE KeyPaths(_)
KeyPaths(x) ==
    CASE x.t = "dict" ->
            UNION {{<<x.v[i][1]>>} \cup {<<x.v[i][1]>> \o p : p \in KeyPaths(x.v[i][2])} :
                   i \in 1..Len(x.v)}
      [] x.t = "list" ->
            UNION {{<<IndexText(i)>> \o p : p \in KeyPaths(x.v[i])} : i \in 1..Len(x.v)}
      [] OTHER -> {}

(* the document with the key at the path taken away *)
RECURSIVE DropAt(_, _)
DropAt(x, path) ==
    IF x.t = "dict"
    THEN IF Len(path) = 1
         THEN JDict(SelectSeq(x.v, LAMBDA kv : kv[1] # path[1]))
         ELSE JDict([i \in 1..Len(x.v) |->
                        IF x.v[i][1] = path[1]
                        THEN <<x.v[i][1], DropAt(x.v[i][2], Tail(path))>>
                        ELSE x.v[i]])
    ELSE JList([i \in 1..Len(x.v) |->
                   IF IndexText(i) = path[1] THEN DropAt(x.v[i], Tail(path)) ELSE x.v[i]])

(* the document with the value at the path replaced *)
RECURSIVE SetAt(_, _, _)
SetAt(x, path, new) ==
    IF path = <<>> THEN new
    ELSE IF x.t = "dict"
    THEN JDict([i \in 1..Len(x.v) |->
                   IF x.v[i][1] = path[1]
                   THEN <<x.v[i][1], SetAt(x.v[i][2], Tail(path), new)>>
                   ELSE x.v[i]])
    ELSE JList([i \in 1..Len(x.v) |->
                   IF IndexText(i) = path[1] THEN SetAt(x.v[i], Tail(path), new) ELSE x.v[i]])

FullDocument(f) ==
    CASE f = "cfr_data.json" -> FullCfr
      [] f = "cyc_data.json" -> FullCyc
      [] f = "illustration_data.json" -> FullIllustration
      [] f = "ceding_info.json" -> FullCedingInfo
      [] f = "user_input.json" -> FullUserInput
      [] f = template_path -> FullTemplate

KeysAbsent(full) == {full, EmptyDict} \cup {DropAt(full, p) : p \in KeyPaths(full)}
NullPresent(full) == {SetAt(full, p, JNull) : p \in ValuePaths(full)}

(* the document with a field of the employer scheme table holding a value of
   another JSON type *)
CellsRetyped(full) ==
    {SetAt(full, p, v) :
        p \in {<<<<"e","m","p","l","o","y","e","r","_","s","c","h","e","m","e">>, k>> :
                  k \in {<<"c","o","n","t","r","i","b","u","t","i","o","n","_","t","y","p","e">>, <<"s","o","u","r","c","e">>, <<"c","a","n","_","a","c","c","e","p","t">>,
                         <<"s","c","h","e","m","e","_","t","y","p","e">>}} \cap ValuePaths(full),
        v \in {JInt(0), JInt(40), JBool(FALSE), JBool(TRUE), EmptyStr}}

(* the template with a placeholder the sources resolve as one of the prose
   strings the letter and part phases append *)
ProseTokened(full) ==
    {SetAt(full, p, JStr(<<"{","c","f","r",".","r","e","c","i","p","i","e","n","t",".","t","i","t","l","e","_","a","n","d","_","n","a","m","e","}">>)) :
        p \in { <<<<"t","e","m","p","l","a","t","e">>, <<"p","a","r","t","s","_","i","n","t","r","o">>>>,
                <<<<"t","e","m","p","l","a","t","e">>, <<"p","a","r","t","s","_","b","u","l","l","e","t","s">>, IndexText(1)>>,
                <<<<"t","e","m","p","l","a","t","e">>, <<"a","p","p","e","n","d","i","x","_","i","n","t","r","o">>>>,
                <<<<"t","e","m","p","l","a","t","e">>, <<"o","t","h","e","r","_","d","o","c","u","m","e","n","t","a","t","i","o","n">>, <<"h","e","a","d","i","n","g">>>>,
                <<<<"t","e","m","p","l","a","t","e">>, <<"o","t","h","e","r","_","d","o","c","u","m","e","n","t","a","t","i","o","n">>, <<"i","n","t","r","o">>>>,
                <<<<"t","e","m","p","l","a","t","e">>, <<"o","t","h","e","r","_","d","o","c","u","m","e","n","t","a","t","i","o","n">>, <<"b","u","l","l","e","t","s">>, IndexText(1)>>,
                <<<<"t","e","m","p","l","a","t","e">>, <<"o","t","h","e","r","_","d","o","c","u","m","e","n","t","a","t","i","o","n">>, <<"c","l","o","s","i","n","g">>>>,
                <<<<"t","e","m","p","l","a","t","e">>, <<"n","e","x","t","_","s","t","e","p","s">>, <<"p","a","r","a","g","r","a","p","h","s">>, IndexText(1)>>,
                <<<<"p","a","r","t","1">>, <<"h","e","a","d","i","n","g","1">>>>,
                <<<<"p","a","r","t","2">>, <<"h","e","a","d","i","n","g","2">>>> } \cap ValuePaths(full)}

(* the template with another content list in one of its parts: none, tables
   asked for twice, and table ids of the tables the phases append themselves *)
TableItem(id) == JDict(<< <<<<"t","y","p","e">>, JStr(<<"t","a","b","l","e">>)>>, <<<<"t","a","b","l","e","_","i","d">>, JStr(id)>> >>)

ContentsVaried(full) ==
    {SetAt(full, p, c) :
        p \in { <<<<"p","a","r","t","1">>, <<"c","o","n","t","e","n","t">>>>, <<<<"p","a","r","t","2">>, <<"c","o","n","t","e","n","t">>>>,
                <<<<"p","a","r","t","3">>, <<"c","o","n","t","e","n","t">>>>, <<<<"p","a","r","t","4">>, <<"c","o","n","t","e","n","t">>>> }
                  \cap ValuePaths(full),
        c \in { EmptyList,
                JList(<< TableItem(<<"p","e","n","s","i","o","n","_","a","r","r","a","n","g","e","m","e","n","t","s">>),
                         TableItem(<<"r","e","c","o","m","m","e","n","d","a","t","i","o","n","_","t","a","b","l","e">>),
                         TableItem(<<"p","e","n","s","i","o","n","_","a","r","r","a","n","g","e","m","e","n","t","s">>) >>),
                JList(<< TableItem(<<"e","m","p","l","o","y","e","r","_","s","c","h","e","m","e">>),
                         TableItem(<<"r","e","c","o","m","m","e","n","d","a","t","i","o","n","_","t","a","b","l","e">>),
                         TableItem(<<"p","r","o","d","u","c","t","_","c","o","m","p","a","r","i","s","o","n">>),
                         TableItem(<<"t","r","a","n","s","f","e","r","_","i","m","p","a","c","t">>) >>) }}

(* what a file of the data directory may be *)
FileStates(f) ==
    {FileAbsent, FileMalformed, FileOk(JNull), FileOk(JList(<<>>))}
        \cup {FileOk(x) : x \in KeysAbsent(FullDocument(f)) \cup NullPresent(FullDocument(f))
                                \cup CellsRetyped(FullDocument(f))
                                \cup ProseTokened(FullDocument(f))
                                \cup ContentsVaried(FullDocument(f))}

AllFull == [f \in FileNames |-> FileOk(FullDocument(f))]
AllAbsent == [f \in FileNames |-> IF f = template_path THEN FileOk(EmptyDict) ELSE FileAbsent]

(* every file as in one of the two directories above, but for one file *)
FileConfigs ==
    UNION {{[base EXCEPT ![f] = st] : base \in {AllFull, AllAbsent}, st \in FileStates(f)} :
           f \in FileNames}

-----------------------------------------------------------------------------
(* TemplateDocumentGenerator.generate *)

Init ==
    /\ files \in FileConfigs
    /\ writable \in BOOLEAN
    /\ pc = "new"
    /\ template = JNull
    /\ sources = EmptyDict
    /\ styles = JNull
    /\ nextPhase = "none"
    /\ log = <<>>
    /\ doc = <<>>
    /\ out = <<>>
    /\ call = NoCall
    /\ ret = JNull

(* a variant of PhaseAfter in which generate goes from part1 to part3 *)
PhaseAfter_SkipsPart2(phase) ==
    CASE phase = "setup" -> "letter"
      [] phase = "letter" -> "part1"
      [] phase = "part1" -> "part3"
      [] phase = "part3" -> "part4"
      [] phase = "part4" -> "appendix-i"
      [] phase = "appendix-i" -> "appendix-ii"
      [] phase = "appendix-ii" -> "page-numbers"
      [] phase = "page-numbers" -> "save"

(* the statement that follows a phase in the body of generate *)
PhaseAfter(phase) ==
    CASE phase = "setup" -> "letter"
      [] phase = "letter" -> "part1"
      [] phase = "part1" -> "part2"
      [] phase = "part2" -> "part3"
      [] phase = "part3" -> "part4"
      [] phase = "part4" -> "appendix-i"
      [] phase = "appendix-i" -> "appendix-ii"
      [] phase = "appendix-ii" -> "page-numbers"
      [] phase = "page-numbers" -> "save"

(* generate(output_path) is called and creates the empty document *)
Generate ==
    /\ pc = "ready"
    /\ call.op \notin {"get", "resolve"}
    /\ pc' = "generating"
    /\ nextPhase' = "setup"
    /\ doc' = <<>>
    /\ log' = <<>>
    /\ call' = [NoCall EXCEPT !.op = "generate"]
    /\ ret' = JNull
    /\ UNCHANGED <<files, writable, template, sources, styles, out>>

(* a variant of RunPhase in which the letter phase takes its section out of
   the template *)
RunPhase_PopsSection(phase, nodes) ==
    /\ pc = "generating"
    /\ nextPhase = phase
    /\ log' = Append(log, phase)
    /\ IF HasRaise(nodes)
       THEN /\ pc' = "ready"
            /\ nextPhase' = "none"
            /\ doc' = <<>>
            /\ ret' = Raised
       ELSE /\ pc' = "generating"
            /\ nextPhase' = PhaseAfter(phase)
            /\ doc' = doc \o nodes
            /\ ret' = JNull
    /\ template' = IF phase = "letter" /\ template.t = "dict"
                   THEN DropAt(template, <<<<"t","e","m","p","l","a","t","e">>>>)
                   ELSE template
    /\ UNCHANGED <<files, writable, sources, styles, out, call>>

(* a variant of RunPhase that catches the phase's exception and writes what
   has been built so far *)
RunPhase_SavesPartial(phase, nodes) ==
    /\ pc = "generating"
    /\ nextPhase = phase
    /\ log' = Append(log, phase)
    /\ IF HasRaise(nodes)
       THEN /\ pc' = "ready"
            /\ nextPhase' = "none"
            /\ doc' = <<>>
            /\ out' = doc
            /\ ret' = Raised
       ELSE /\ pc' = "generating"
            /\ nextPhase' = PhaseAfter(phase)
            /\ doc' = doc \o nodes
            /\ out' = out
            /\ ret' = JNull
    /\ UNCHANGED <<files, writable, template, sources, styles, call>>

(* One phase call of generate: what it appends, or the exception that leaves
   generate and drops the document under construction *)
RunPhase(phase, nodes) ==
    /\ pc = "generating"
    /\ nextPhase = phase
    /\ log' = Append(log, phase)
    /\ IF HasRaise(nodes)
       THEN /\ pc' = "ready"
            /\ nextPhase' = "none"
            /\ doc' = <<>>
            /\ ret' = Raised
       ELSE /\ pc' = "generating"
            /\ nextPhase' = PhaseAfter(phase)
            /\ doc' = doc \o nodes
            /\ ret' = JNull
    /\ UNCHANGED <<files, writable, template, sources, styles, out, call>>

Setup == RunPhase("setup", _setup_document(template, styles))
Letter == RunPhase("letter", _generate_letter(template, sources))
Part1 == RunPhase("part1", _generate_part1(template, sources))
Part2 == RunPhase("part2", _generate_part2(template, sources))
Part3 == RunPhase("part3", _generate_part3(template, sources))
Part4 == RunPhase("part4", _generate_part4(template, sources))
AppendixI == RunPhase("appendix-i", _generate_appendix_i(sources))
AppendixII == RunPhase("appendix-ii", _generate_appendix(template, sources))
PageNumbers == RunPhase("page-numbers", _add_page_numbers(doc))

(* os.makedirs and doc.save: the document is written, or the write raises *)
Save ==
    /\ pc = "generating"
    /\ nextPhase = "save"
    /\ log' = Append(log, "save")
    /\ pc' = "ready"
    /\ nextPhase' = "none"
    /\ doc' = <<>>
    /\ IF writable
       THEN out' = doc /\ ret' = JNull
       ELSE out' = out /\ ret' = Raised
    /\ UNCHANGED <<files, writable, template, sources, styles, call>>

Next ==
    \/ Construct
    \/ Generate
    \/ Setup
    \/ Letter
    \/ Part1
    \/ Part2
    \/ Part3
    \/ Part4
    \/ AppendixI
    \/ AppendixII
    \/ PageNumbers
    \/ Save

Spec == Init /\ [][Next]_vars


-----------------------------------------------------------------------------
(* The content loop of a phase, for item in part.get("content", []):
   self._process_content_item(doc, item), on content lists drawn from a
   bounded set of items *)

MaxItems == 2

(* what a content list may hold: paragraphs (with and without a type, with and
   without a text), headings, bullet lists over sequences and mappings, with and
   without keys, table items with the table names of the column-schema list
   and the ids the dispatcher compares with, items of unknown type, and an
   element that is no mapping *)
SchemaTableIds ==
    { <<"p","e","n","s","i","o","n","_","a","r","r","a","n","g","e","m","e","n","t","s">>, <<"r","e","c","o","m","m","e","n","d","a","t","i","o","n">>, <<"e","m","p","l","o","y","e","r","_","s","c","h","e","m","e">>,
      <<"t","r","a","n","s","f","e","r","_","i","m","p","a","c","t">>, <<"o","u","t","p","e","r","f","o","r","m","a","n","c","e">>, <<"f","u","n","d","_","s","e","l","e","c","t","i","o","n">>,
      <<"p","r","o","d","u","c","t","_","c","o","m","p","a","r","i","s","o","n">> }

ContentItems ==
    { JDict(<< <<<<"t","y","p","e">>, JStr(<<"p","a","r","a","g","r","a","p","h">>)>>,
               <<<<"t","e","x","t">>, JStr(HelloSp \o Tok(cfr \o <<".", "a">>))>> >>),
      JDict(<< <<<<"t","y","p","e">>, JStr(<<"p","a","r","a","g","r","a","p","h">>)>>,
               <<<<"t","e","x","t">>, JStr(Tok(<<"c","f","r",".","r","e","c","i","p","i","e","n","t",".","t","i","t","l","e","_","a","n","d","_","n","a","m","e">>) \o Tok(cfr \o <<".", "z">>))>> >>),
      JDict(<< <<<<"t","e","x","t">>, JStr(<<"x">>)>> >>),
      JDict(<< <<<<"t","y","p","e">>, JStr(<<"p","a","r","a","g","r","a","p","h">>)>> >>),
      JDict(<<>>),
      JDict(<< <<<<"t","e","x","t">>, JStr(HelloSp \o Tok(cfr \o <<".", "a">>))>> >>),
      JDict(<< <<<<"t","y","p","e">>, JStr(<<"h","e","a","d","i","n","g","2">>)>>,
               <<<<"t","e","x","t">>, JStr(HelloSp \o Tok(<<"c","f","r",".","r","e","c","i","p","i","e","n","t",".","t","i","t","l","e","_","a","n","d","_","n","a","m","e">>))>> >>),
      JDict(<< <<<<"t","e","x","t">>, JStr(Tok(cfr \o <<".", "n">>))>>,
               <<<<"t","y","p","e">>, JStr(<<"h","e","a","d","i","n","g","2">>)>> >>),
      JDict(<< <<<<"t","y","p","e">>, JStr(<<"b","u","l","l","e","t","_","l","i","s","t">>)>>,
               <<<<"s","o","u","r","c","e">>, JStr(<<"c","f","r",".","o","b","j","e","c","t","i","v","e","s">>)>> >>),
      JDict(<< <<<<"t","y","p","e">>, JStr(<<"b","u","l","l","e","t","_","l","i","s","t">>)>>,
               <<<<"s","o","u","r","c","e">>, JStr(<<"c","f","r",".","n","e","e","d","s">>)>> >>),
      JDict(<< <<<<"t","y","p","e">>, JStr(<<"b","u","l","l","e","t","_","l","i","s","t">>)>>,
               <<<<"s","o","u","r","c","e">>, JStr(<<"c","f","r",".","n","e","e","d","s">>)>>,
               <<<<"k","e","y","s">>, JList(<<S("b"), S("x"), S("a"), S("b")>>)>> >>),
      JDict(<< <<<<"t","y","p","e">>, JStr(<<"b","u","l","l","e","t","_","l","i","s","t">>)>>,
               <<<<"s","o","u","r","c","e">>, JStr(<<"c","f","r",".","l">>)>> >>),
      JDict(<< <<<<"t","y","p","e">>, JStr(<<"b","u","l","l","e","t","_","l","i","s","t">>)>>,
               <<<<"s","o","u","r","c","e">>, JStr(<<"c","f","r",".","d",".","l">>)>> >>),
      JDict(<< <<<<"t","y","p","e">>, JStr(<<"b","u","l","l","e","t","_","l","i","s","t">>)>>,
               <<<<"s","o","u","r","c","e">>, JStr(<<"c","f","r",".","e">>)>> >>),
      JDict(<< <<<<"t","y","p","e">>, JStr(<<"b","u","l","l","e","t","_","l","i","s","t">>)>>,
               <<<<"s","o","u","r","c","e">>, JStr(<<"c","f","r",".","d">>)>> >>),
      JDict(<< <<<<"t","y","p","e">>, JStr(<<"b","u","l","l","e","t","_","l","i","s","t">>)>>,
               <<<<"s","o","u","r","c","e">>, JStr(<<"c","f","r",".","d">>)>>,
               <<<<"k","e","y","s">>, JList(<<S("l"), JInt(0), S("q"), S("a")>>)>> >>),
      JDict(<< <<<<"t","y","p","e">>, JStr(<<"b","u","l","l","e","t","_","l","i","s","t">>)>>,
               <<<<"s","o","u","r","c","e">>, JStr(<<"c","f","r",".","d">>)>>,
               <<<<"k","e","y","s">>, JList(<<>>)>> >>),
      JDict(<< <<<<"t","y","p","e">>, JStr(<<"b","u","l","l","e","t","_","l","i","s","t">>)>>,
               <<<<"s","o","u","r","c","e">>, JStr(<<"c","f","r",".","a">>)>> >>),
      JDict(<< <<<<"t","y","p","e">>, JStr(<<"b","u","l","l","e","t","_","l","i","s","t">>)>> >>),
      JDict(<< <<<<"t","y","p","e">>, JStr(<<"b","u","l","l","e","t","_","l","i","s","t">>)>>,
               <<<<"s","o","u","r","c","e">>, JStr(<<"c","f","r",".","n","e","e","d","s">>)>>,
               <<<<"k","e","y","s">>, JNull>> >>),
      JDict(<< <<<<"t","y","p","e">>, JStr(<<"n","o","t","e">>)>>,
               <<<<"t","e","x","t">>, JStr(<<"x">>)>> >>),
      JDict(<< <<<<"t","y","p","e">>, JStr(<<"P","a","r","a","g","r","a","p","h">>)>>,
               <<<<"t","e","x","t">>, JStr(<<"x">>)>> >>),
      JDict(<< <<<<"t","y","p","e">>, JInt(5)>>,
               <<<<"s","o","u","r","c","e">>, JStr(<<"c","f","r",".","o","b","j","e","c","t","i","v","e","s">>)>> >>),
      JDict(<< <<<<"t","y","p","e">>, JNull>>,
               <<<<"t","a","b","l","e","_","i","d">>, JStr(<<"p","e","n","s","i","o","n","_","a","r","r","a","n","g","e","m","e","n","t","s">>)>> >>),
      JStr(<<"x">>) }
    \cup { JDict(<< <<<<"t","y","p","e">>, JStr(<<"t","a","b","l","e">>)>>, <<<<"t","a","b","l","e","_","i","d">>, JStr(id)>> >>) :
             id \in SchemaTableIds \cup {<<"r","e","c","o","m","m","e","n","d","a","t","i","o","n","_","t","a","b","l","e">>, <<"n","o","p","e">>} }

ContentLists == UNION {[1..k -> ContentItems] : k \in 0..MaxItems}

ContentFileConfigs ==
    { AllFull,
      [AllFull EXCEPT !["cfr_data.json"] = FileOk(RichCfr)],
      AllAbsent }

ContentInit ==
    /\ files \in ContentFileConfigs
    /\ writable = TRUE
    /\ pc = "new"
    /\ template = JNull
    /\ sources = EmptyDict
    /\ styles = JNull
    /\ nextPhase = "none"
    /\ log = <<>>
    /\ doc = <<>>
    /\ out = <<>>
    /\ call = NoCall
    /\ ret = JNull

(* the generator is constructed and no content loop is in progress *)
ContentIdle == pc = "ready" /\ call.op = "none"

(* the loop over a content list on the document under construction: every
   item appends its nodes in turn, or an exception leaves the loop and the
   document is dropped *)
ContentCall(content) ==
    /\ ContentIdle
    /\ call' = [NoCall EXCEPT !.op = "content", !.default = JList(content)]
    /\ IF HasRaise(ProcessContent(JList(content), sources))
       THEN doc' = <<>> /\ ret' = Raised
       ELSE doc' = ProcessContent(JList(content), sources) /\ ret' = JNull
    /\ UNCHANGED <<files, writable, pc, template, sources, styles, nextPhase, log,
                   out>>

(* the loop is over; the next one starts on a new document *)
ContentReturn ==
    /\ call.op = "content"
    /\ call' = NoCall
    /\ doc' = <<>>
    /\ ret' = JNull
    /\ UNCHANGED <<files, writable, pc, template, sources, styles, nextPhase, log,
                   out>>

ContentNext ==
    \/ Construct
    \/ ContentIdle /\ \E content \in ContentLists : ContentCall(content)
    \/ ContentReturn

ContentSpec == ContentInit /\ [][ContentNext]_vars

-----------------------------------------------------------------------------
(* A generator in use: a caller constructs it and then queries it and runs
   generate, one call after the other, any number of times *)

SessionFileConfigs ==
    { AllFull,
      [AllFull EXCEPT !["cfr_data.json"] = FileOk(RichCfr)],
      QueryFiles(FileOk(RichCfr), FileAbsent, FileOk(ArrayRoot),
                 FileAbsent, FileOk(SmallUserInput)) }

SessionInit ==
    /\ files \in SessionFileConfigs
    /\ writable \in BOOLEAN
    /\ pc = "new"
    /\ template = JNull
    /\ sources = EmptyDict
    /\ styles = JNull
    /\ nextPhase = "none"
    /\ log = <<>>
    /\ doc = <<>>
    /\ out = <<>>
    /\ call = NoCall
    /\ ret = JNull

SessionNext ==
    \/ Construct
    \/ Idle /\ \E h \in PathHeads, ss \in SegSeqs(1), d \in Defaults :
                  GetCall(JoinDot(<<h>> \o ss), d)
    \/ Idle /\ \E piece \in Pieces : ResolveCall(<<piece>>)
    \/ Return
    \/ Generate
    \/ Setup
    \/ Letter
    \/ Part1
    \/ Part2
    \/ Part3
    \/ Part4
    \/ AppendixI
    \/ AppendixII
    \/ PageNumbers
    \/ Save

SessionSpec == SessionInit /\ [][SessionNext]_vars

-----------------------------------------------------------------------------
(* Loading: absent and malformed files *)

SourceName(i) == source_files[i][1]
SourceFile(i) == source_files[i][2]
NoneMalformed == \A f \in FileNames : files[f].st # "malformed"

(* C9: with a source file absent, loading does not fail, that source is the
   empty mapping, the other sources are loaded as their files hold them, and
   get returns the default for every path under that source. *)
C9_AbsentSourceIsEmptyMapping ==
    \A i \in 1..Len(source_files) :
        (/\ files[SourceFile(i)].st = "absent"
         /\ files[template_path] = FileOk(EmptyDict)
         /\ NoneMalformed
         /\ pc # "new") =>
            /\ pc = "ready"
            /\ HasKey(sources, SourceName(i))
            /\ DictAt(sources, SourceName(i)) = EmptyDict
            /\ \A j \in 1..Len(source_files) :
                  files[SourceFile(j)].st = "ok" =>
                      /\ HasKey(sources, SourceName(j))
                      /\ DictAt(sources, SourceName(j)) = files[SourceFile(j)].json
            /\ (GetReturned /\ Segments(call.path)[1] = SourceName(i)) =>
                  ret = call.default

C9_Witness ==
    /\ files["cyc_data.json"] = FileAbsent
    /\ GetReturned
    /\ call.path = cyc \o <<".", "a", ".", "0">>
    /\ call.default = S("D")
    /\ ret = S("D")
    /\ DictAt(sources, cyc) = EmptyDict
    /\ DictAt(sources, cfr) = RichCfr

(* C10: a present file holding malformed JSON is fatal: construction raises,
   there is no generator, no phase runs and nothing is written. *)
C10_MalformedJsonIsFatal ==
    (\E f \in FileNames : files[f].st = "malformed") =>
        /\ pc \in {"new", "failed"}
        /\ (pc = "failed") =>
              (ret = Raised /\ template = JNull /\ sources = EmptyDict /\ styles = JNull)
        /\ nextPhase = "none"
        /\ log = <<>>
        /\ doc = <<>>
        /\ out = <<>>

C10_Witness ==
    /\ pc = "failed"
    /\ ret = Raised
    /\ files["cyc_data.json"] = FileMalformed
    /\ files[template_path] = FileOk(FullTemplate)
    /\ files["cfr_data.json"] = FileOk(FullCfr)

-----------------------------------------------------------------------------
(* The phases of generate *)

PhaseOrder ==
    <<"setup", "letter", "part1", "part2", "part3", "part4", "appendix-i",
      "appendix-ii", "page-numbers", "save">>

GenerateReturned == pc = "ready" /\ call.op = "generate"

(* C4: the phases run in the order setup, letter, part1, part2, part3, part4,
   appendix-i, appendix-ii, page-numbers, save, each once in an invocation:
   what has run is always an initial part of that order, the phase to run is
   the next of it, and an invocation that returns has run all of it. *)
C4_PhasesInFixedOrder ==
    /\ Len(log) <= Len(PhaseOrder)
    /\ log = SubSeq(PhaseOrder, 1, Len(log))
    /\ (pc = "generating") =>
          (Len(log) < Len(PhaseOrder) /\ nextPhase = PhaseOrder[Len(log) + 1])
    /\ (GenerateReturned /\ ret = JNull) => log = PhaseOrder

C4_Witness ==
    /\ GenerateReturned
    /\ ret = JNull
    /\ log = PhaseOrder
    /\ files = AllFull
    /\ out # <<>>

(* v is full with any subset of its mapping keys absent, at any depth *)
RECURSIVE KeysDropped(_, _)
KeysDropped(v, full) ==
    CASE full.t = "dict" ->
            /\ v.t = "dict"
            /\ \A i \in 1..Len(v.v) :
                  /\ HasKey(full, v.v[i][1])
                  /\ KeysDropped(v.v[i][2], DictAt(full, v.v[i][1]))
      [] full.t = "list" ->
            /\ v.t = "list"
            /\ Len(v.v) = Len(full.v)
            /\ \A i \in 1..Len(v.v) : KeysDropped(v.v[i], full.v[i])
      [] OTHER -> v = full

(* the template and every source file present hold a JSON object with some of
   the keys absent; a source file may be missing *)
ObjectRootsKeysAbsent ==
    /\ files[template_path].st = "ok"
    /\ KeysDropped(files[template_path].json, FullTemplate)
    /\ \A i \in 1..Len(source_files) :
          \/ files[SourceFile(i)] = FileAbsent
          \/ /\ files[SourceFile(i)].st = "ok"
             /\ KeysDropped(files[SourceFile(i)].json, FullDocument(SourceFile(i)))

(* text the code itself supplies, or the empty string *)
BlankOrLiteral(x) ==
    \/ x.t = "lit"
    \/ x.t = "str" /\ x.v = <<>>
    \/ x.t = "fmt" /\ \A i \in 1..Len(x.v) :
                          x.v[i].t = "lit" \/ (x.v[i].t = "str" /\ x.v[i].v = <<>>)

NoDataRendered(nodes) ==
    \A k \in 1..Len(nodes) :
        /\ BlankOrLiteral(nodes[k].text)
        /\ \A c \in 1..Len(nodes[k].columns) : nodes[k].columns[c].t = "lit"
        /\ \A r \in 1..Len(nodes[k].rows) :
              \A c \in 1..Len(nodes[k].rows[r]) : BlankOrLiteral(nodes[k].rows[r][c])

(* C5: with object roots and any keys absent, all five source files missing
   and an empty template included, generate runs every phase through save
   without raising where the output can be written, and what is absent is
   rendered as the empty string or the literal default of the code. *)
C5_MissingDataNeverAborts ==
    ObjectRootsKeysAbsent =>
        /\ pc # "failed"
        /\ (ret = Raised) => (~writable /\ GenerateReturned /\ log = PhaseOrder)
        /\ (GenerateReturned /\ writable) =>
              (ret = JNull /\ log = PhaseOrder /\ out # <<>>)
        /\ (files = AllAbsent) => (NoDataRendered(doc) /\ NoDataRendered(out))

C5_Witness ==
    /\ files = AllAbsent
    /\ writable
    /\ GenerateReturned
    /\ ret = JNull
    /\ log = PhaseOrder
    /\ out # <<>>
    /\ NoDataRendered(out)

-----------------------------------------------------------------------------
(* The outcomes of generate *)

(* C11: a generate run ends in one of two ways: every phase has completed and
   the save phase writes the document built by them, or an exception leaves
   it; the output changes only in the save phase, after the nine phases before
   it, and a run that raises leaves the output as it was. *)
C11_CompletesAndSavesOrRaises ==
    [][ /\ (pc = "generating" /\ pc' = "ready") =>
              \/ /\ ret' = JNull
                 /\ log' = PhaseOrder
                 /\ doc # <<>>
                 /\ out' = doc
              \/ /\ ret' = Raised
                 /\ out' = out
        /\ (out' # out) =>
              /\ nextPhase = "save"
              /\ log = SubSeq(PhaseOrder, 1, Len(PhaseOrder) - 1)
              /\ ret' = JNull ]_vars

(* a phase before save raised: generate has returned and nothing is written *)
C11_Witness ==
    /\ GenerateReturned
    /\ ret = Raised
    /\ log = <<"setup", "letter">>
    /\ out = <<>>

-----------------------------------------------------------------------------
(* The content loop, read back from the document: every item of a known type
   begins with an empty paragraph, so the nodes of the n-th such item are
   those between the n-th empty paragraph and the next. *)

ContentReturned == call.op = "content"
Content == call.default.v

ItemField(item, key, default) == IF HasKey(item, key) THEN DictAt(item, key) ELSE default

(* an item without a type is a paragraph *)
ItemType(item) == ItemField(item, <<"t","y","p","e">>, JStr(<<"p","a","r","a","g","r","a","p","h">>))

KnownTypes == {<<"p","a","r","a","g","r","a","p","h">>, <<"h","e","a","d","i","n","g","2">>, <<"b","u","l","l","e","t","_","l","i","s","t">>, <<"t","a","b","l","e">>}
OfKnownType(item) == ItemType(item).t = "str" /\ ItemType(item).v \in KnownTypes
IsMapping(x) == x.t = "dict"
KnownItems == SelectSeq(Content, LAMBDA item : IsMapping(item) /\ OfKnownType(item))

BlankPositions == {i \in 1..Len(doc) : doc[i].kind = "plain"}
NthBlank(n) ==
    CHOOSE i \in BlankPositions : Cardinality({j \in BlankPositions : j < i}) = n - 1
ItemNodes(n) ==
    SubSeq(doc, NthBlank(n) + 1,
           IF n = Cardinality(BlankPositions) THEN Len(doc) ELSE NthBlank(n + 1) - 1)

(* the loop returned normally and left one empty paragraph per known item *)
ContentDone ==
    /\ ContentReturned
    /\ ret = JNull
    /\ Cardinality(BlankPositions) = Len(KnownItems)

TextNode(kind, text) == [kind |-> kind, text |-> text, columns |-> <<>>, rows |-> <<>>]

IsBulletList(item) == ItemType(item) = JStr(<<"b","u","l","l","e","t","_","l","i","s","t">>)
SourceOf(item) == ItemField(item, <<"s","o","u","r","c","e">>, EmptyStr)
HasSourcePath(item) == SourceOf(item).t = "str" /\ SourceOf(item).v # <<>>
BulletData(item) == get(sources, SourceOf(item).v, EmptyStr)

(* C15: a bullet_list item whose source resolves through get to a sequence of
   k elements appends k bullets, one per element, in the sequence's order. *)
C15_OneBulletPerElement ==
    ContentDone =>
        \A n \in 1..Len(KnownItems) :
            (/\ IsBulletList(KnownItems[n])
             /\ HasSourcePath(KnownItems[n])
             /\ BulletData(KnownItems[n]).t = "list") =>
                ItemNodes(n) = [i \in 1..Len(BulletData(KnownItems[n]).v) |->
                                   TextNode("bullet", BulletData(KnownItems[n]).v[i])]

C15_Witness ==
    /\ ContentDone
    /\ files = AllFull
    /\ Len(Content) = 1
    /\ IsBulletList(Content[1])
    /\ SourceOf(Content[1]) = JStr(<<"c","f","r",".","o","b","j","e","c","t","i","v","e","s">>)
    /\ BulletData(Content[1]).t = "list"
    /\ Len(BulletData(Content[1]).v) = 3
    /\ \A i \in 1..3 : BulletData(Content[1]).v[i].t = "str"
    /\ Len(doc) = 4
    /\ \A i \in 1..3 : doc[i + 1] = TextNode("bullet", BulletData(Content[1]).v[i])

(* the item's keys list, when it is given as a list of JSON scalars *)
ListsScalarKeys(item) ==
    /\ HasKey(item, <<"k","e","y","s">>)
    /\ DictAt(item, <<"k","e","y","s">>).t = "list"
    /\ \A i \in 1..Len(DictAt(item, <<"k","e","y","s">>).v) :
          DictAt(item, <<"k","e","y","s">>).v[i].t \notin {"list", "dict"}

(* the listed keys the mapping holds, in the listed order *)
ListedKeysHeld(item, data) ==
    SelectSeq(DictAt(item, <<"k","e","y","s">>).v, LAMBDA k : k.t = "str" /\ HasKey(data, k.v))

(* C16: a bullet_list item whose source resolves to a mapping appends one
   bullet per key: with a keys list, one per listed key the mapping holds, in
   the listed order; without one, one per key of the mapping in its order. *)
C16_OneBulletPerKey ==
    ContentDone =>
        \A n \in 1..Len(KnownItems) :
            LET item == KnownItems[n]
            IN (IsBulletList(item) /\ HasSourcePath(item) /\ BulletData(item).t = "dict") =>
                  /\ ListsScalarKeys(item) =>
                        ItemNodes(n) =
                            [i \in 1..Len(ListedKeysHeld(item, BulletData(item))) |->
                                TextNode("bullet",
                                         DictAt(BulletData(item),
                                                ListedKeysHeld(item, BulletData(item))[i].v))]
                  /\ ~HasKey(item, <<"k","e","y","s">>) =>
                        ItemNodes(n) =
                            [i \in 1..Len(BulletData(item).v) |->
                                TextNode("bullet", BulletData(item).v[i][2])]

C16_Witness ==
    /\ ContentDone
    /\ files = AllFull
    /\ Len(Content) = 2
    /\ IsBulletList(Content[1])
    /\ SourceOf(Content[1]) = JStr(<<"c","f","r",".","n","e","e","d","s">>)
    /\ ListsScalarKeys(Content[1])
    /\ DictAt(Content[1], <<"k","e","y","s">>) = JList(<<S("b"), S("x"), S("a"), S("b")>>)
    /\ IsBulletList(Content[2])
    /\ SourceOf(Content[2]) = JStr(<<"c","f","r",".","n","e","e","d","s">>)
    /\ ~HasKey(Content[2], <<"k","e","y","s">>)
    /\ Len(ItemNodes(1)) = 3
    /\ Len(ItemNodes(2)) = 3
    /\ ItemNodes(1)[1] = ItemNodes(2)[2]
    /\ ItemNodes(1)[2] = ItemNodes(2)[1]
    /\ ItemNodes(1)[3] = ItemNodes(2)[2]

(* the table a name of the schema list stands for *)
NamedTable(id) ==
    CASE id = <<"p","e","n","s","i","o","n","_","a","r","r","a","n","g","e","m","e","n","t","s">> -> _add_pension_arrangements_table(sources)
      [] id = <<"r","e","c","o","m","m","e","n","d","a","t","i","o","n">> -> _add_recommendation_table(sources)
      [] id = <<"e","m","p","l","o","y","e","r","_","s","c","h","e","m","e">> -> _add_employer_scheme_table(sources)
      [] id = <<"t","r","a","n","s","f","e","r","_","i","m","p","a","c","t">> -> _add_transfer_impact_table(sources)
      [] id = <<"o","u","t","p","e","r","f","o","r","m","a","n","c","e">> -> _add_outperformance_table(sources)
      [] id = <<"f","u","n","d","_","s","e","l","e","c","t","i","o","n">> -> _add_fund_selection_table(sources)
      [] id = <<"p","r","o","d","u","c","t","_","c","o","m","p","a","r","i","s","o","n">> -> _add_product_comparison_table(sources)

IsTableItem(item) == ItemType(item) = JStr(<<"t","a","b","l","e">>)
TableIdOf(item) == ItemField(item, <<"t","a","b","l","e","_","i","d">>, EmptyStr)

(* C17: a table item carrying the name of a table of the schema list appends
   that table. *)
C17_TableIdSelectsBuilder ==
    ContentDone =>
        \A n \in 1..Len(KnownItems) :
            (/\ IsTableItem(KnownItems[n])
             /\ TableIdOf(KnownItems[n]).t = "str"
             /\ TableIdOf(KnownItems[n]).v \in SchemaTableIds) =>
                ItemNodes(n) = NamedTable(TableIdOf(KnownItems[n]).v)

(* what the dispatcher does with a table item: the ids pension_arrangements
   and recommendation_table append their table, any other id appends nothing
   after the empty paragraph *)
C17_TwoIdsDispatched ==
    ContentDone =>
        \A n \in 1..Len(KnownItems) :
            IsTableItem(KnownItems[n]) =>
                ItemNodes(n) =
                    IF TableIdOf(KnownItems[n]) = JStr(<<"p","e","n","s","i","o","n","_","a","r","r","a","n","g","e","m","e","n","t","s">>)
                    THEN _add_pension_arrangements_table(sources)
                    ELSE IF TableIdOf(KnownItems[n]) = JStr(<<"r","e","c","o","m","m","e","n","d","a","t","i","o","n","_","t","a","b","l","e">>)
                    THEN _add_recommendation_table(sources)
                    ELSE <<>>

(* the outcome of the loop over a content list *)
Outcome(content) ==
    IF HasRaise(ProcessContent(JList(content), sources)) THEN <<"raised">>
    ELSE ProcessContent(JList(content), sources)

AllMappings == \A i \in 1..Len(Content) : IsMapping(Content[i])
NoneKnown == \A i \in 1..Len(Content) : ~OfKnownType(Content[i])

(* C18: an item of an unknown type raises nothing and appends nothing, and the
   items after it are processed: the loop ends as it does on the list without
   the items of unknown type, and a list of such items only leaves the
   document empty. *)
C18_UnknownTypeIgnored ==
    (ContentReturned /\ AllMappings) =>
        /\ (IF ret = Raised THEN <<"raised">> ELSE doc) = Outcome(KnownItems)
        /\ ret = JNull => Cardinality(BlankPositions) = Len(KnownItems)
        /\ NoneKnown => (ret = JNull /\ doc = <<>>)

C18_Witness ==
    /\ ContentDone
    /\ DictAt(sources, cfr) = RichCfr
    /\ Len(Content) = 2
    /\ ItemType(Content[1]) = JStr(<<"n","o","t","e">>)
    /\ ItemType(Content[2]) = JStr(<<"h","e","a","d","i","n","g","2">>)
    /\ doc = <<TextNode("plain", NoText), TextNode("heading2", JStr(<<"7">>))>>

(* C19: a paragraph item appends a paragraph, a heading2 item a section
   heading, each with the text resolve_placeholders makes of the item's text,
   and the items' nodes stand in the order of the list. *)
C19_ParagraphAndHeadingResolved ==
    ContentDone =>
        \A n \in 1..Len(KnownItems) :
            LET item == KnownItems[n]
                resolved == resolve_placeholders(sources, ItemField(item, <<"t","e","x","t">>, EmptyStr))
            IN /\ ItemType(item) = JStr(<<"p","a","r","a","g","r","a","p","h">>) =>
                     ItemNodes(n) = <<TextNode("paragraph", resolved)>>
               /\ ItemType(item) = JStr(<<"h","e","a","d","i","n","g","2">>) =>
                     ItemNodes(n) = <<TextNode("heading2", resolved)>>

C19_Witness ==
    /\ ContentDone
    /\ DictAt(sources, cfr) = RichCfr
    /\ Len(Content) = 2
    /\ Content[1] = JDict(<< <<<<"t","e","x","t">>, JStr(Tok(cfr \o <<".", "n">>))>>,
                             <<<<"t","y","p","e">>, JStr(<<"h","e","a","d","i","n","g","2">>)>> >>)
    /\ Content[2] = JDict(<< <<<<"t","y","p","e">>, JStr(<<"p","a","r","a","g","r","a","p","h">>)>>,
                             <<<<"t","e","x","t">>, JStr(HelloSp \o Tok(cfr \o <<".", "a">>))>> >>)
    /\ doc = <<TextNode("plain", NoText), TextNode("heading2", JStr(<<"7">>)),
               TextNode("plain", NoText),
               TextNode("paragraph", JStr(HelloSp \o <<"A","n","n">>))>>

-----------------------------------------------------------------------------
(* The employer scheme table of part 2 *)

EmployerKeys == <<<<"c","o","n","t","r","i","b","u","t","i","o","n","_","t","y","p","e">>, <<"s","o","u","r","c","e">>, <<"c","a","n","_","a","c","c","e","p","t">>, <<"s","c","h","e","m","e","_","t","y","p","e">>>>

(* user_input.employer_scheme is a mapping that holds a non-empty value (text,
   a non-zero number or true) under each of the four keys *)
EmployerFullyPopulated ==
    /\ HasKey(sources, user_input)
    /\ DictAt(sources, user_input).t = "dict"
    /\ HasKey(DictAt(sources, user_input), <<"e","m","p","l","o","y","e","r","_","s","c","h","e","m","e">>)
    /\ DictAt(DictAt(sources, user_input), <<"e","m","p","l","o","y","e","r","_","s","c","h","e","m","e">>).t = "dict"
    /\ \A i \in 1..4 :
          /\ HasKey(DictAt(DictAt(sources, user_input), <<"e","m","p","l","o","y","e","r","_","s","c","h","e","m","e">>), EmployerKeys[i])
          /\ DictAt(DictAt(DictAt(sources, user_input), <<"e","m","p","l","o","y","e","r","_","s","c","h","e","m","e">>),
                    EmployerKeys[i]).t \in {"str", "int", "bool"}
          /\ Truthy(DictAt(DictAt(DictAt(sources, user_input), <<"e","m","p","l","o","y","e","r","_","s","c","h","e","m","e">>),
                           EmployerKeys[i]))

EmployerValue(i) ==
    DictAt(DictAt(DictAt(sources, user_input), <<"e","m","p","l","o","y","e","r","_","s","c","h","e","m","e">>), EmployerKeys[i])

(* the tables of a document headed "Contribution Type" *)
EmployerTables(nodes) ==
    SelectSeq(nodes, LAMBDA nd : /\ nd.kind = "table"
                                 /\ nd.columns # <<>>
                                 /\ nd.columns[1] = Lit("Contribution Type"))

OneEmployerRow(nodes) ==
    /\ Len(EmployerTables(nodes)) = 1
    /\ Len(EmployerTables(nodes)[1].columns) = 4
    /\ EmployerTables(nodes)[1].rows =
          << [i \in 1..4 |-> JStr(PyStr(EmployerValue(i)))] >>

(* C20: with user_input.employer_scheme fully populated, part 2 appends one
   employer scheme table: a four-column header and one data row whose cells
   are the text of contribution_type, source, can_accept and scheme_type, in
   this order. *)
C20_EmployerSchemeRow ==
    EmployerFullyPopulated =>
        /\ (pc = "generating" /\ Len(log) < 4) => EmployerTables(doc) = <<>>
        /\ (pc = "generating" /\ Len(log) >= 4) => OneEmployerRow(doc)
        /\ (out # <<>>) => OneEmployerRow(out)

C20_Witness ==
    /\ files = AllFull
    /\ EmployerFullyPopulated
    /\ pc = "generating"
    /\ log = <<"setup", "letter", "part1", "part2">>
    /\ OneEmployerRow(doc)
    /\ \A i \in 1..4 : EmployerValue(i).t = "str"
    /\ \A i, j \in 1..4 : (i # j) => EmployerValue(i) # EmployerValue(j)

-----------------------------------------------------------------------------
(* The cells of the pension arrangements and recommendation tables *)

(* the field of a source at a key path: found or absent *)
Field(name, path) == PathWalk(DictAt(sources, name), path)

(* what the cell of a field shows: the text of a present value, the column's
   fallback for an absent field *)
ShownOr(f, fallback) ==
    IF ~f.found THEN fallback
    ELSE IF Truthy(f.val) THEN JStr(PyStr(f.val))
    ELSE EmptyStr

PensionField(plan, key) == Field(cfr, <<<<"p","e","n","s","i","o","n","_","a","r","r","a","n","g","e","m","e","n","t","s">>, plan, key>>)
AvivaPlanField(key) == Field(illustration, <<<<"a","v","i","v","a","_","p","l","a","n">>, key>>)
ObjectivesField(key) == Field(user_input, <<<<"p","a","r","t","1","_","o","b","j","e","c","t","i","v","e","s">>, key>>)

PensionRowsClaimed ==
    << << ShownOr(PensionField(<<"s","j","p","_","r","e","t","i","r","e","m","e","n","t","_","a","c","c","o","u","n","t">>, <<"p","r","o","v","i","d","e","r","_","p","l","a","n">>), EmptyStr),
          ShownOr(PensionField(<<"s","j","p","_","r","e","t","i","r","e","m","e","n","t","_","a","c","c","o","u","n","t">>, <<"c","u","r","r","e","n","t","_","v","a","l","u","e">>), EmptyStr),
          ShownOr(PensionField(<<"s","j","p","_","r","e","t","i","r","e","m","e","n","t","_","a","c","c","o","u","n","t">>, <<"t","r","a","n","s","f","e","r","_","v","a","l","u","e">>), EmptyStr),
          ShownOr(PensionField(<<"s","j","p","_","r","e","t","i","r","e","m","e","n","t","_","a","c","c","o","u","n","t">>, <<"o","n","g","o","i","n","g","_","c","o","n","t","r","i","b","u","t","i","o","n">>), EmptyStr),
          ShownOr(PensionField(<<"s","j","p","_","r","e","t","i","r","e","m","e","n","t","_","a","c","c","o","u","n","t">>, <<"p","r","o","p","o","s","e","d","_","a","c","t","i","o","n">>), EmptyStr) >>,
       << ShownOr(PensionField(<<"s","c","o","t","t","i","s","h","_","w","i","d","o","w","s">>, <<"p","r","o","v","i","d","e","r","_","p","l","a","n">>), EmptyStr),
          ShownOr(PensionField(<<"s","c","o","t","t","i","s","h","_","w","i","d","o","w","s">>, <<"c","u","r","r","e","n","t","_","v","a","l","u","e">>), EmptyStr),
          ShownOr(PensionField(<<"s","c","o","t","t","i","s","h","_","w","i","d","o","w","s">>, <<"t","r","a","n","s","f","e","r","_","v","a","l","u","e">>), EmptyStr),
          ShownOr(PensionField(<<"s","c","o","t","t","i","s","h","_","w","i","d","o","w","s">>, <<"o","n","g","o","i","n","g","_","c","o","n","t","r","i","b","u","t","i","o","n">>), EmptyStr),
          ShownOr(ObjectivesField(<<"s","c","o","t","t","i","s","h","_","w","i","d","o","w","s","_","p","r","o","p","o","s","e","d","_","a","c","t","i","o","n">>), Lit("Transfer")) >>,
       << ShownOr(PensionField(<<"a","v","i","v","a">>, <<"p","r","o","v","i","d","e","r","_","p","l","a","n">>), EmptyStr),
          ShownOr(AvivaPlanField(<<"c","u","r","r","e","n","t","_","v","a","l","u","e">>), EmptyStr),
          ShownOr(AvivaPlanField(<<"t","r","a","n","s","f","e","r","_","v","a","l","u","e">>), EmptyStr),
          ShownOr(AvivaPlanField(<<"o","n","g","o","i","n","g","_","c","o","n","t","r","i","b","u","t","i","o","n">>), EmptyStr),
          ShownOr(ObjectivesField(<<"a","v","i","v","a","_","p","r","o","p","o","s","e","d","_","a","c","t","i","o","n">>), Lit("None")) >> >>

RecommendationRowsClaimed ==
    << << ShownOr(Field(cfr, <<<<"p","a","r","t","2","_","r","e","c","o","m","m","e","n","d","a","t","i","o","n">>, <<"s","o","u","r","c","e","_","p","l","a","n">>>>), EmptyStr),
          Lit("Transfer"),
          ShownOr(Field(cfr, <<<<"p","a","r","t","2","_","r","e","c","o","m","m","e","n","d","a","t","i","o","n">>, <<"l","u","m","p","_","s","u","m","_","a","m","o","u","n","t">>>>), EmptyStr),
          ShownOr(Field(user_input, <<<<"p","a","r","t","2","_","r","e","c","o","m","m","e","n","d","a","t","i","o","n">>, <<"r","e","g","u","l","a","r","_","c","o","n","t","r","i","b","u","t","i","o","n">>>>),
                  Lit("None")),
          Lit("None") >> >>

IsTable(nd) == nd.kind \in {"table", "table_vertical"}
Headed(nd, first, n) ==
    IsTable(nd) /\ Len(nd.columns) = n /\ nd.columns[1] = Lit(first)
IsPensionTable(nd) == Headed(nd, "Provider Type of Plan / Plan Number", 5)
IsRecommendationTable(nd) == Headed(nd, "Source", 5)

FallbacksApplied(nodes) ==
    \A k \in 1..Len(nodes) :
        /\ IsPensionTable(nodes[k]) => nodes[k].rows = PensionRowsClaimed
        /\ IsRecommendationTable(nodes[k]) => nodes[k].rows = RecommendationRowsClaimed

(* C21: with keys absent from the sources, the pension arrangements table
   shows 'Transfer' (Scottish Widows) and 'None' (Aviva) as Proposed Action
   when user_input.part1_objectives lacks the key, the recommendation table
   shows 'None' as Regular Contribution when regular_contribution is absent,
   every other absent field is an empty cell, and a present field shows its
   own value. *)
C21_ColumnFallbacks ==
    ObjectRootsKeysAbsent => (FallbacksApplied(doc) /\ FallbacksApplied(out))

C21_Witness ==
    /\ out # <<>>
    /\ ObjectRootsKeysAbsent
    /\ files["cfr_data.json"] = FileOk(FullCfr)
    /\ ~ObjectivesField(<<"s","c","o","t","t","i","s","h","_","w","i","d","o","w","s","_","p","r","o","p","o","s","e","d","_","a","c","t","i","o","n">>).found
    /\ ObjectivesField(<<"a","v","i","v","a","_","p","r","o","p","o","s","e","d","_","a","c","t","i","o","n">>).found
    /\ \E k \in 1..Len(out) :
          /\ IsPensionTable(out[k])
          /\ out[k].rows[2][5] = Lit("Transfer")
          /\ out[k].rows[3][5] = JStr(PyStr(ObjectivesField(<<"a","v","i","v","a","_","p","r","o","p","o","s","e","d","_","a","c","t","i","o","n">>).val))
          /\ out[k].rows[3][5] # Lit("None")
    /\ \E k \in 1..Len(out) : IsRecommendationTable(out[k])

-----------------------------------------------------------------------------
(* The header rows of the tables *)

Header(names) == [i \in 1..Len(names) |-> Lit(names[i])]

(* the column lists of the specification's table of schemas *)
SchemaHeaders ==
    { Header(<<"Provider Type/Plan Number", "Current Value", "Transfer Value",
               "Ongoing Contribution", "Proposed Action">>),
      Header(<<"Source", "Transfer/Redirection", "Lump Sum Amount",
               "Regular Contribution", "Indexation">>),
      Header(<<"Contribution Type", "Source", "Can employer accept?",
               "Type of Employer Scheme">>),
      Header(<<"Provider Plan", "Transfer Value", "Charge on Transfer", "Protected TFC",
               "Guarantees", "Terminal Bonus">>),
      Header(<<"Provider Plan", "Action", "Level of Outperformance Required",
               "Monetary Equivalent First Year">>),
      Header(<<"Category", "Fund Selection", "Fund Type", "Risk Profile",
               "Percentage of investment">>),
      Header(<<"Plan Name/Number", "Initial Advice Charge", "Ongoing Advice Charge",
               "Ongoing Product Charge", "Ongoing Fund Charge", "Annual Mgmt Charge",
               "Early Withdrawal Charges", "Allocation Rate", "Total External Mgmt Charge",
               "Plan Charge", "Number of Funds", "Max Number of Funds", "Guarantees">>) }

(* the column names the builders write, which spell out what the schema
   table abbreviates *)
BuilderHeaders ==
    { Header(<<"Provider Type of Plan / Plan Number", "Current Value", "Transfer Value",
               "Ongoing Contribution", "Proposed Action">>),
      Header(<<"Source", "Transfer/Redirection", "Lump Sum Amount",
               "Regular Contribution", "Indexation">>),
      Header(<<"Contribution Type", "Source",
               "Can the employer accept this type of contribution?",
               "Type of Employer Scheme">>),
      Header(<<"Provider Plan", "Transfer Value", "Charge on Transfer",
               "Protected Tax-Free Cash", "Guarantees", "Terminal Bonus">>),
      Header(<<"Provider Plan", "Action", "Level of Outperformance Required",
               "Monetary Equivalent in First Year">>),
      Header(<<"Category", "Fund Selection", "Fund Type", "Risk Profile",
               "Percentage of investment">>),
      Header(<<"Provider Plan Name / Number", "Initial Advice Charge",
               "Ongoing Advice Charge", "Ongoing Product Charge", "Ongoing Fund Charge",
               "Annual Management Charge", "Early Withdrawal Charges", "Allocation Rate",
               "Total External Management Charge", "Plan Charge", "Number of Funds",
               "Maximum Number of Funds", "Any Guarantees Applicable">>) }

ColumnCounts == {Len(h) : h \in BuilderHeaders}

(* every table among the nodes has one of the given headers and rows as wide
   as its header *)
TablesHeaded(nodes, headers) ==
    \A k \in 1..Len(nodes) :
        IsTable(nodes[k]) =>
            /\ nodes[k].columns \in headers
            /\ \A r \in 1..Len(nodes[k].rows) :
                  Len(nodes[k].rows[r]) = Len(nodes[k].columns)

(* C22 as stated: the header row of every table is the column list the
   specification's schema table gives for it, and every data row has as many
   cells as the header. *)
C22_SchemaHeaders ==
    TablesHeaded(doc, SchemaHeaders) /\ TablesHeaded(out, SchemaHeaders)

(* C22 amended: whatever the sources hold, the header row of every table is
   one of seven fixed lists of 5, 5, 4, 6, 4, 5 and 13 column names, in the
   order of the schema table but with the builders' own wording where the
   schema table abbreviates, and every data row has as many cells as the
   header. *)
C22_FixedHeaders ==
    /\ ColumnCounts = {4, 5, 6, 13}
    /\ TablesHeaded(doc, BuilderHeaders)
    /\ TablesHeaded(out, BuilderHeaders)

C22_Witness ==
    /\ out # <<>>
    /\ files["user_input.json"] = FileAbsent
    /\ {out[k].columns : k \in {j \in 1..Len(out) : IsTable(out[j])}} = BuilderHeaders
    /\ \E k \in 1..Len(out) : IsTable(out[k]) /\ Len(out[k].rows) = 3

-----------------------------------------------------------------------------
(* The inputs of a constructed generator *)

(* C23: once the generator is constructed, no call of get or
   resolve_placeholders and no step of generate (phases and their table
   builders, save) changes the template or the sources, and a generate that
   writes after an earlier one has written writes the same document. *)
C23_InputsReadOnly ==
    [][pc # "new" =>
          /\ template' = template
          /\ sources' = sources
          /\ (out # <<>> => out' = out)]_vars

(* a second generate, after the first has written, has built the same
   document from the same template *)
C23_Witness ==
    /\ out # <<>>
    /\ pc = "generating"
    /\ nextPhase = "save"
    /\ doc = out
    /\ files[template_path] = FileOk(template)
    /\ template # EmptyDict

-----------------------------------------------------------------------------
(* Placeholders in the prose of the template *)

(* none of the texts appended holds a placeholder the sources resolve *)
NoRawToken(nodes) ==
    \A k \in 1..Len(nodes) :
        nodes[k].text.t = "str" =>
            resolve_placeholders(sources, nodes[k].text) = nodes[k].text

(* C24: every prose string a phase takes from the template goes through
   resolve_placeholders before it is appended, so that no text of the
   document holds a placeholder the sources resolve. *)
C24_ProseResolved == NoRawToken(doc) /\ NoRawToken(out)

(* the template holds the placeholder in a string the phases append as it is *)
TokenInRawProse ==
    /\ files[template_path].st = "ok"
    /\ files[template_path].json \in ProseTokened(FullTemplate)
    /\ PathWalk(files[template_path].json,
                <<<<"t","e","m","p","l","a","t","e">>, <<"n","e","x","t","_","s","t","e","p","s">>, <<"p","a","r","a","g","r","a","p","h","s">>, IndexText(1)>>).val
          = PathWalk(FullTemplate,
                     <<<<"t","e","m","p","l","a","t","e">>, <<"n","e","x","t","_","s","t","e","p","s">>, <<"p","a","r","a","g","r","a","p","h","s">>, IndexText(1)>>).val

(* what the code does resolve: the intro, ongoing advice and next steps
   paragraphs of the letter and the text of content items *)
C24_ParagraphsResolved == ~TokenInRawProse => C24_ProseResolved

-----------------------------------------------------------------------------
(* The content lists of the part phases *)

IsSegment(seg, nodes) ==
    \E s \in 0..(Len(nodes) - Len(seg)) : SubSeq(nodes, s + 1, s + Len(seg)) = seg

(* the content list of a section of the template *)
ContentOf(section) ==
    IF PathWalk(template, <<section, <<"c","o","n","t","e","n","t">>>>).found
    THEN PathWalk(template, <<section, <<"c","o","n","t","e","n","t">>>>).val
    ELSE EmptyList

(* the nodes of the section's content items, dispatched in list order, stand
   in the document next to each other *)
Dispatched(section, nodes) == IsSegment(ProcessContent(ContentOf(section), sources), nodes)

PhaseDone(phase) == pc = "generating" /\ \E i \in 1..Len(log) : log[i] = phase

DispatchedBy(section, phase) ==
    /\ PhaseDone(phase) => Dispatched(section, doc)
    /\ out # <<>> => Dispatched(section, out)

(* C25: in each of the phases part1, part2, part3 and part4, every item of
   the content list of that section of the template goes through the
   content-item dispatcher, in list order. *)
C25_EveryPartDispatches ==
    /\ DispatchedBy(<<"p","a","r","t","1">>, "part1")
    /\ DispatchedBy(<<"p","a","r","t","2">>, "part2")
    /\ DispatchedBy(<<"p","a","r","t","3">>, "part3")
    /\ DispatchedBy(<<"p","a","r","t","4">>, "part4")

(* what the code does: part1 and part2 dispatch their content lists *)
C25_Part1Part2Dispatch ==
    /\ DispatchedBy(<<"p","a","r","t","1">>, "part1")
    /\ DispatchedBy(<<"p","a","r","t","2">>, "part2")

-----------------------------------------------------------------------------
(* A null where a source holds a mapping *)

(* v is full with null in the place of any of its mappings *)
RECURSIVE MappingsNulled(_, _)
MappingsNulled(v, full) ==
    CASE full.t = "dict" ->
            \/ v.t = "null"
            \/ /\ v.t = "dict"
               /\ Len(v.v) = Len(full.v)
               /\ \A i \in 1..Len(v.v) :
                     /\ v.v[i][1] = full.v[i][1]
                     /\ MappingsNulled(v.v[i][2], full.v[i][2])
      [] full.t = "list" ->
            /\ v.t = "list"
            /\ Len(v.v) = Len(full.v)
            /\ \A i \in 1..Len(v.v) : MappingsNulled(v.v[i], full.v[i])
      [] OTHER -> v = full

(* the value without the keys of its mappings that hold null *)
RECURSIVE NullKeysDropped(_)
NullKeysDropped(v) ==
    CASE v.t = "dict" ->
            LET kept == SelectSeq(v.v, LAMBDA kv : kv[2].t # "null")
            IN JDict([i \in 1..Len(kept) |-> <<kept[i][1], NullKeysDropped(kept[i][2])>>])
      [] v.t = "list" -> JList([i \in 1..Len(v.v) |-> NullKeysDropped(v.v[i])])
      [] OTHER -> v

(* the full template and sources, but for a source that holds null where the
   full one holds a mapping *)
NullForAMapping ==
    /\ files[template_path] = FileOk(FullTemplate)
    /\ \A i \in 1..Len(source_files) :
          /\ files[SourceFile(i)].st = "ok"
          /\ files[SourceFile(i)].json.t = "dict"
          /\ MappingsNulled(files[SourceFile(i)].json, FullDocument(SourceFile(i)))
    /\ \E i \in 1..Len(source_files) :
          files[SourceFile(i)].json # FullDocument(SourceFile(i))

PhasesOf(tpl, sty, srcs) ==
    Concat(<< _setup_document(tpl, sty),
              _generate_letter(tpl, srcs),
              _generate_part1(tpl, srcs),
              _generate_part2(tpl, srcs),
              _generate_part3(tpl, srcs),
              _generate_part4(tpl, srcs),
              _generate_appendix_i(srcs),
              _generate_appendix(tpl, srcs) >>)

Numbered(nodes) == nodes \o _add_page_numbers(nodes)

(* the document generate builds when the keys holding null are missing *)
AsIfMissing == Numbered(PhasesOf(template, styles, NullKeysDropped(sources)))

(* C26: with a key of a source, read by a phase or a table builder, present
   and null where a mapping is expected, generate completes without raising
   and writes the document it writes when the key is missing. *)
C26_NullAsAbsent ==
    (GenerateReturned /\ writable /\ NullForAMapping) =>
        (ret = JNull /\ out = AsIfMissing)

(* where only get reads the key, null is as good as absent *)
C26_NullUnderGet ==
    (GenerateReturned /\ NullForAMapping /\ ret = JNull) => out = AsIfMissing

-----------------------------------------------------------------------------
(* One pass of substitution *)

(* the value of the token is itself a placeholder the sources resolve *)
ValueIsToken(piece) ==
    /\ TruthyToken(piece)
    /\ TokenValue(piece).t = "str"
    /\ OfPlaceholderForm(TokenValue(piece).v)
    /\ Truthy(get(sources, InnerPath(TokenValue(piece).v), EmptyStr))

(* C27: resolve_placeholders passes over the text once: a substituted value
   that is itself a placeholder the sources resolve stands in the result as
   it is, so that resolving the result again gives another text. *)
C27_SinglePass ==
    ResolveReturned =>
        \A i \in 1..Len(call.pieces) :
            ValueIsToken(call.pieces[i]) =>
                /\ OutputOffset(i) + Len(TokenValue(call.pieces[i]).v) <= Len(ret.v)
                /\ OutputAt(i, Len(TokenValue(call.pieces[i]).v)) = TokenValue(call.pieces[i]).v
                /\ resolve_placeholders(sources, ret) # ret

C27_Witness ==
    /\ ResolveReturned
    /\ call.pieces = << HelloSp, Tok(user_input \o <<".">> \o <<"r","e","f">>) >>
    /\ ret = JStr(HelloSp \o <<"{","c","f","r",".","n","}">>)
    /\ resolve_placeholders(sources, ret) = JStr(HelloSp \o <<"7">>)

-----------------------------------------------------------------------------
(* Content items without a type *)

Typeless(item) == IsMapping(item) /\ ~HasKey(item, <<"t","y","p","e">>)

(* the item with the type paragraph written out *)
AsParagraph(item) ==
    IF Typeless(item)
    THEN JDict(<< <<<<"t","y","p","e">>, JStr(<<"p","a","r","a","g","r","a","p","h">>)>> >> \o item.v)
    ELSE item

TextOrEmpty(item) == IF HasKey(item, <<"t","e","x","t">>) THEN DictAt(item, <<"t","e","x","t">>) ELSE EmptyStr

(* an empty paragraph and a paragraph of the resolved text *)
SpacedParagraph(item) ==
    << TextNode("plain", NoText),
       TextNode("paragraph", resolve_placeholders(sources, TextOrEmpty(item))) >>

(* C28: a content item without a type is dispatched as a paragraph: the loop
   ends as on the list with the type written out, and a list of items without
   a type appends, per item, an empty paragraph and then a paragraph of the
   resolved text, or of the empty string when the item has no text. *)
C28_TypelessIsParagraph ==
    ContentReturned =>
        /\ (IF ret = Raised THEN <<"raised">> ELSE doc)
              = Outcome([i \in 1..Len(Content) |-> AsParagraph(Content[i])])
        /\ (\A i \in 1..Len(Content) : Typeless(Content[i])) =>
              /\ ret = JNull
              /\ doc = Concat([i \in 1..Len(Content) |-> SpacedParagraph(Content[i])])

C28_Witness ==
    /\ ContentReturned
    /\ DictAt(sources, cfr) = RichCfr
    /\ Content = << JDict(<<>>),
                    JDict(<< <<<<"t","e","x","t">>, JStr(HelloSp \o Tok(cfr \o <<".", "a">>))>> >>) >>
    /\ doc = << TextNode("plain", NoText), TextNode("paragraph", EmptyStr),
                TextNode("plain", NoText),
                TextNode("paragraph", JStr(HelloSp \o <<"A","n","n">>)) >>

-----------------------------------------------------------------------------
(* The tables of a document *)

IsEmployerTable(nd) == Headed(nd, "Contribution Type", 4)
IsTransferImpactTable(nd) == Headed(nd, "Provider Plan", 6)
IsOutperformanceTable(nd) == Headed(nd, "Provider Plan", 4)
IsFundSelectionTable(nd) == Headed(nd, "Category", 5)
IsProductComparisonTable(nd) == Headed(nd, "Provider Plan Name / Number", 13)

TableName(nd) ==
    CASE IsPensionTable(nd) -> "pension_arrangements"
      [] IsRecommendationTable(nd) -> "recommendation"
      [] IsEmployerTable(nd) -> "employer_scheme"
      [] IsTransferImpactTable(nd) -> "transfer_impact"
      [] IsOutperformanceTable(nd) -> "outperformance"
      [] IsFundSelectionTable(nd) -> "fund_selection"
      [] IsProductComparisonTable(nd) -> "product_comparison"
      [] OTHER -> "other"

(* the names of the tables of the nodes, in their order *)
TableNames(nodes) ==
    LET tables == SelectSeq(nodes, IsTable)
    IN [i \in 1..Len(tables) |-> TableName(tables[i])]

PhaseTables ==
    <<"employer_scheme", "transfer_impact", "outperformance", "fund_selection",
      "product_comparison">>

(* the tables of the phases among the tables of the nodes *)
OfPhases(names) ==
    SelectSeq(names, LAMBDA n : \E i \in 1..Len(PhaseTables) : PhaseTables[i] = n)

Count(names, name) == Cardinality({i \in 1..Len(names) : names[i] = name})

(* how many of the tables of the phases stand in the document after so many
   phases *)
PhaseTablesAfter(n) ==
    IF n >= 8 THEN 5 ELSE IF n >= 6 THEN 4 ELSE IF n >= 5 THEN 3 ELSE IF n >= 4 THEN 1 ELSE 0

(* the table items of part1 and part2 of the template with the table id *)
Requests(id) ==
    Len(SelectSeq(ContentOf(<<"p","a","r","t","1">>).v \o ContentOf(<<"p","a","r","t","2">>).v,
                  LAMBDA item : /\ IsMapping(item)
                                /\ ItemField(item, <<"t","y","p","e">>, JNull) = JStr(<<"t","a","b","l","e">>)
                                /\ ItemField(item, <<"t","a","b","l","e","_","i","d">>, JNull) = JStr(id)))

TablesOfCompleteRun(nodes) ==
    /\ OfPhases(TableNames(nodes)) = PhaseTables
    /\ Count(TableNames(nodes), "pension_arrangements") = Requests(<<"p","e","n","s","i","o","n","_","a","r","r","a","n","g","e","m","e","n","t","s">>)
    /\ Count(TableNames(nodes), "recommendation") = Requests(<<"r","e","c","o","m","m","e","n","d","a","t","i","o","n","_","t","a","b","l","e">>)
    /\ Count(TableNames(nodes), "other") = 0

(* C29: whatever the content lists of the template hold, a run appends the
   employer scheme table in part2, the transfer impact and then the
   outperformance table in part3, the fund selection table in part4 and the
   product comparison table in appendix-ii, so that a completed run has each
   of the five once and in this order; the pension arrangements and the
   recommendation table stand in the document as many times as table items of
   part1 and part2 ask for them. *)
C29_PhaseTablesOnceInOrder ==
    /\ pc = "generating" =>
          OfPhases(TableNames(doc)) = SubSeq(PhaseTables, 1, PhaseTablesAfter(Len(log)))
    /\ (pc = "generating" /\ nextPhase = "save") => TablesOfCompleteRun(doc)
    /\ out # <<>> => TablesOfCompleteRun(out)

C29_Witness ==
    /\ out # <<>>
    /\ files["cfr_data.json"] = FileOk(FullCfr)
    /\ Requests(<<"p","e","n","s","i","o","n","_","a","r","r","a","n","g","e","m","e","n","t","s">>) = 2
    /\ Requests(<<"r","e","c","o","m","m","e","n","d","a","t","i","o","n","_","t","a","b","l","e">>) = 2
    /\ Requests(<<"e","m","p","l","o","y","e","r","_","s","c","h","e","m","e">>) = 0
    /\ TableNames(out) =
          <<"pension_arrangements", "recommendation", "pension_arrangements",
            "recommendation", "employer_scheme", "transfer_impact", "outperformance",
            "fund_selection", "product_comparison">>

-----------------------------------------------------------------------------
(* The cells of a table *)

Scalar(v) == v.t \in {"str", "int", "bool", "null"}

(* the text of a truthy value, the empty string for a falsy one *)
Shown(v) == IF Truthy(v) THEN JStr(PyStr(v)) ELSE EmptyStr

(* user_input.employer_scheme is a mapping with a scalar, which may be 0,
   false, null or the empty string, under each of the four keys *)
EmployerScalars ==
    /\ Field(user_input, <<<<"e","m","p","l","o","y","e","r","_","s","c","h","e","m","e">>>>).found
    /\ Field(user_input, <<<<"e","m","p","l","o","y","e","r","_","s","c","h","e","m","e">>>>).val.t = "dict"
    /\ \A i \in 1..4 :
          /\ Field(user_input, <<<<"e","m","p","l","o","y","e","r","_","s","c","h","e","m","e">>, EmployerKeys[i]>>).found
          /\ Scalar(Field(user_input, <<<<"e","m","p","l","o","y","e","r","_","s","c","h","e","m","e">>, EmployerKeys[i]>>).val)

FundKeys ==
    <<<<"c","a","t","e","g","o","r","y">>, <<"f","u","n","d","_","s","e","l","e","c","t","i","o","n">>, <<"f","u","n","d","_","t","y","p","e">>, <<"r","i","s","k","_","p","r","o","f","i","l","e">>, <<"p","e","r","c","e","n","t","a","g","e">>>>
Funds == Field(user_input, <<<<"f","u","n","d","_","s","e","l","e","c","t","i","o","n">>, <<"t","a","b","l","e">>>>)

(* user_input.fund_selection.table is a sequence of mappings of scalars *)
FundScalars ==
    /\ Funds.found
    /\ Funds.val.t = "list"
    /\ \A r \in 1..Len(Funds.val.v) :
          /\ Funds.val.v[r].t = "dict"
          /\ \A c \in 1..5 : Scalar(ItemField(Funds.val.v[r], FundKeys[c], EmptyStr))

CellsShown(nodes) ==
    \A k \in 1..Len(nodes) :
        /\ (IsEmployerTable(nodes[k]) /\ EmployerScalars) =>
              nodes[k].rows = << [c \in 1..4 |-> Shown(EmployerValue(c))] >>
        /\ (IsFundSelectionTable(nodes[k]) /\ FundScalars) =>
              nodes[k].rows =
                  [r \in 1..Len(Funds.val.v) |->
                      [c \in 1..5 |-> Shown(ItemField(Funds.val.v[r], FundKeys[c], EmptyStr))]]

(* C30: a table has the header of its columns and one row of as many cells
   per row of data, and a cell holds the text of its value when the value is
   truthy and the empty string when it is falsy, 0 and false included: so
   for the one row of the employer scheme table and the rows of the fund
   selection table, one per fund. *)
C30_FalsyCellsEmpty == CellsShown(doc) /\ CellsShown(out)

(* a completed run: false shown as the empty cell in the employer scheme
   table, and 0 in the second of the two rows of the fund selection table *)
C30_Witness ==
    /\ out # <<>>
    /\ EmployerScalars
    /\ FundScalars
    /\ EmployerValue(3) = JBool(FALSE)
    /\ Len(Funds.val.v) = 2
    /\ DictAt(Funds.val.v[2], <<"p","e","r","c","e","n","t","a","g","e">>) = JInt(0)
    /\ \E k \in 1..Len(out) :
          /\ IsEmployerTable(out[k])
          /\ out[k].rows[1][3] = EmptyStr
          /\ out[k].rows[1][2] = JStr(PyStr(EmployerValue(2)))
    /\ \E k \in 1..Len(out) :
          /\ IsFundSelectionTable(out[k])
          /\ Len(out[k].rows) = 2
          /\ out[k].rows[2][5] = EmptyStr
          /\ out[k].rows[2][1] # EmptyStr
=============================================================================
